---- MODULE Spec2Model ----
(***************************************************************************)
(* Loom API adapter (src/src/client.ts) and tenant credential helpers      *)
(* (src/src/types/env.ts): the credential check, the single outbound       *)
(* request of every operation, the classification of the response, the     *)
(* wire-to-internal mapping and the tool handlers' envelopes.               *)
(***************************************************************************)
EXTENDS Integers, Sequences, FiniteSets, TLC

(***************************************************************************)
(* Bounds of the model.                                                    *)
(***************************************************************************)
\* number of adapter instances (tenants served at the same time)
NumInst == 2
\* longest item list in a listing response
MaxItems == 2

Inst == 1..NumInst

(***************************************************************************)
(* JavaScript values.  Every value carries its type tag, so that the       *)
(* truthiness tests of the source (||, !!, if (x)) are computed as the     *)
(* language computes them.                                                 *)
(***************************************************************************)
undefined == [t |-> "undefined"]
null == [t |-> "null"]
NaN == [t |-> "NaN"]
Str(s) == [t |-> "string", s |-> s]
Num(n) == [t |-> "number", n |-> n]
Bool(b) == [t |-> "boolean", b |-> b]
Obj(f) == [t |-> "object", f |-> f]
Arr(a) == [t |-> "array", a |-> a]

\* ToBoolean: undefined, null, "", 0, NaN and false are falsy
Truthy(v) ==
    CASE v.t = "undefined" -> FALSE
      [] v.t = "null" -> FALSE
      [] v.t = "NaN" -> FALSE
      [] v.t = "string" -> v.s # ""
      [] v.t = "number" -> v.n # 0
      [] v.t = "boolean" -> v.b
      [] OTHER -> TRUE

\* a || b
OrElse(a, b) == IF Truthy(a) THEN a ELSE b

Nullish(v) == v.t \in {"undefined", "null"}

\* v.k for a value v that is neither undefined nor null
Get(v, k) == IF v.t = "object" /\ k \in DOMAIN v.f THEN v.f[k] ELSE undefined

\* `${v}` inside a template literal
ToStr(v) ==
    CASE v.t = "string" -> v.s
      [] v.t = "number" -> ToString(v.n)
      [] v.t = "boolean" -> (IF v.b THEN "true" ELSE "false")
      [] v.t = "NaN" -> "NaN"
      [] v.t = "null" -> "null"
      [] v.t = "undefined" -> "undefined"
      [] v.t = "array" -> "[array]"
      [] OTHER -> "[object Object]"

\* completion of a call: a thrown error or a returned value
Thrown(e) == [threw |-> TRUE, error |-> e]
Returned(v) == [threw |-> FALSE, value |-> v]

(***************************************************************************)
(* Number.parseInt(s, 10): leading white space is skipped, one sign is     *)
(* accepted, the longest run of decimal digits is read; NaN without a      *)
(* digit.                                                                  *)
(***************************************************************************)
Digits == <<"0", "1", "2", "3", "4", "5", "6", "7", "8", "9">>
IsDigit(c) == \E d \in 1..10 : Digits[d] = c
DigitVal(c) == (CHOOSE d \in 1..10 : Digits[d] = c) - 1
CharAt(s, i) == SubSeq(s, i, i)

RECURSIVE SkipSpace(_, _)
SkipSpace(s, i) ==
    IF i <= Len(s) /\ CharAt(s, i) = " " THEN SkipSpace(s, i + 1) ELSE i

RECURSIVE ReadDigits(_, _, _)
ReadDigits(s, i, acc) ==
    IF i <= Len(s) /\ IsDigit(CharAt(s, i))
        THEN ReadDigits(s, i + 1, 10 * acc + DigitVal(CharAt(s, i)))
        ELSE acc

parseInt(s) ==
    LET i == SkipSpace(s, 1)
        signed == i <= Len(s) /\ CharAt(s, i) \in {"+", "-"}
        neg == signed /\ CharAt(s, i) = "-"
        j == IF signed THEN i + 1 ELSE i
    IN  IF j <= Len(s) /\ IsDigit(CharAt(s, j))
            THEN Num(IF neg THEN 0 - ReadDigits(s, j, 0) ELSE ReadDigits(s, j, 0))
            ELSE NaN

(***************************************************************************)
(* Error classes of utils/errors.js and the built-in errors.               *)
(***************************************************************************)
AuthenticationError(message) ==
    [name |-> "AuthenticationError", message |-> message]
RateLimitError(message, retryAfter) ==
    [name |-> "RateLimitError", message |-> message, retryAfter |-> retryAfter]
LoomApiError(message, status, code) ==
    [name |-> "LoomApiError", message |-> message, status |-> status, code |-> code]
TypeError(message) == [name |-> "TypeError", message |-> Str(message)]
SyntaxError(message) == [name |-> "SyntaxError", message |-> Str(message)]

\* formatError(error): the text of the failure
formatError(error) == error.message


(***************************************************************************)
(* JSON text.  A text either parses to a value or makes JSON.parse throw.  *)
(* JSON.stringify leaves out the properties whose value is undefined and   *)
(* writes undefined array elements and NaN as null.                        *)
(***************************************************************************)
JsonText(v) == [json |-> TRUE, value |-> v]
RawText(s) == [json |-> FALSE, text |-> s]

RECURSIVE Strip(_)
Strip(v) ==
    CASE v.t = "object" ->
            Obj([k \in {x \in DOMAIN v.f : v.f[x].t # "undefined"} |-> Strip(v.f[k])])
      [] v.t = "array" ->
            Arr([i \in 1..Len(v.a) |->
                    IF v.a[i].t = "undefined" THEN null ELSE Strip(v.a[i])])
      [] v.t = "NaN" -> null
      [] OTHER -> v

JSONStringify(v) == JsonText(Strip(v))

JSONParse(text) ==
    IF text.json THEN Returned(text.value)
    ELSE Thrown(SyntaxError("Unexpected token in JSON"))

(***************************************************************************)
(* URLSearchParams.toString(): application/x-www-form-urlencoded.          *)
(***************************************************************************)
FormEncodeChar(c) ==
    CASE c = " " -> "+"
      [] c = ":" -> "%3A"
      [] c = "/" -> "%2F"
      [] c = "?" -> "%3F"
      [] c = "&" -> "%26"
      [] c = "=" -> "%3D"
      [] OTHER -> c

RECURSIVE FormEncode(_)
FormEncode(s) ==
    IF s = "" THEN ""
    ELSE FormEncodeChar(CharAt(s, 1)) \o FormEncode(SubSeq(s, 2, Len(s)))

RECURSIVE QueryString(_)
QueryString(pairs) ==
    IF pairs = <<>> THEN ""
    ELSE LET p == Head(pairs)
             rest == QueryString(Tail(pairs))
         IN  FormEncode(p[1]) \o "=" \o FormEncode(p[2])
                \o (IF rest = "" THEN "" ELSE "&" \o rest)

\* if (v) queryParams.set(k, String(v))
SetIf(v, k) == IF Truthy(v) THEN <<(<<k, ToStr(v)>>)>> ELSE <<>>

(***************************************************************************)
(* Tenant credentials (types/env.ts).                                      *)
(***************************************************************************)
\* Headers.get(name): the value, or null when the header is missing
HeadersGet(headers, name) ==
    IF name \in DOMAIN headers THEN Str(headers[name]) ELSE null

\* mutant: the token falls back to the Authorization header
parseTenantCredentials_AuthorizationFallback(headers) ==
    [accessToken |-> OrElse(OrElse(HeadersGet(headers, "X-Loom-Access-Token"),
                                   HeadersGet(headers, "Authorization")), undefined),
     baseUrl |-> OrElse(HeadersGet(headers, "X-Loom-Base-URL"), undefined)]

parseTenantCredentials(headers) ==
    [accessToken |-> OrElse(HeadersGet(headers, "X-Loom-Access-Token"), undefined),
     baseUrl |-> OrElse(HeadersGet(headers, "X-Loom-Base-URL"), undefined)]

validateCredentials(credentials) ==
    IF ~Truthy(credentials.accessToken)
        THEN Thrown([name |-> "Error",
                    message |-> Str("Missing credentials. Provide X-Loom-Access-Token header.")])
        ELSE Returned(undefined)

(***************************************************************************)
(* Environment configuration (types/env.ts).                               *)
(***************************************************************************)
\* env[key]: undefined when the variable is not set
EnvGet(env, key) == IF key \in DOMAIN env THEN env[key] ELSE undefined

\* mutant: the result of parseInt is returned without the NaN test
getEnvNumber_NoNaNTest(env, key, defaultValue) ==
    LET value == EnvGet(env, key)
    IN  IF value.t = "string" THEN parseInt(value.s) ELSE defaultValue

getEnvNumber(env, key, defaultValue) ==
    LET value == EnvGet(env, key)
    IN  IF value.t = "string"
            THEN LET parsed == parseInt(value.s)
                 IN  IF parsed = NaN THEN defaultValue ELSE parsed
            ELSE defaultValue

getCharacterLimit(env) == getEnvNumber(env, "CHARACTER_LIMIT", Num(50000))
getDefaultPageSize(env) == getEnvNumber(env, "DEFAULT_PAGE_SIZE", Num(20))
getMaxPageSize(env) == getEnvNumber(env, "MAX_PAGE_SIZE", Num(100))

(***************************************************************************)
(* The adapter: construction and the request helper.                       *)
(***************************************************************************)
API_BASE_URL == "https://api.loom.com/v1"

\* mutant: ?? in place of ||, so that an empty override is kept
LoomClientImpl_NullishBase(credentials) ==
    [credentials |-> credentials,
     baseUrl |-> IF Nullish(credentials.baseUrl)
                    THEN Str(API_BASE_URL) ELSE credentials.baseUrl]

\* constructor(credentials)
LoomClientImpl(credentials) ==
    [credentials |-> credentials,
     baseUrl |-> OrElse(credentials.baseUrl, Str(API_BASE_URL))]

createLoomClient(credentials) == LoomClientImpl(credentials)

\* mutant: the headers are built without the credential check
getAuthHeaders_NoCheck(this) ==
    Returned(("Authorization" :> ("Bearer " \o ToStr(this.credentials.accessToken)))
                @@ ("Content-Type" :> "application/json"))

getAuthHeaders(this) ==
    IF ~Truthy(this.credentials.accessToken)
        THEN Thrown(AuthenticationError(
                Str("No credentials provided. Include X-Loom-Access-Token header.")))
        ELSE Returned(("Authorization" :> ("Bearer " \o ToStr(this.credentials.accessToken)))
                    @@ ("Content-Type" :> "application/json"))

\* mutant: a request without a method goes out as POST
requestSend_PostDefault(this, endpoint, options) ==
    LET url == ToStr(this.baseUrl) \o endpoint
        auth == getAuthHeaders(this)
    IN  IF auth.threw THEN Thrown(auth.error)
        ELSE Returned([url |-> url,
                     method |-> IF options.method = "" THEN "POST" ELSE options.method,
                     headers |-> auth.value,
                     body |-> options.body])

\* mutant: Content-Type is sent only with a body
requestSend_ContentTypeWithBody(this, endpoint, options) ==
    LET url == ToStr(this.baseUrl) \o endpoint
        auth == getAuthHeaders(this)
    IN  IF auth.threw THEN Thrown(auth.error)
        ELSE Returned([url |-> url,
                     method |-> IF options.method = "" THEN "GET" ELSE options.method,
                     headers |-> IF options.body = undefined
                                    THEN [h \in {"Authorization"} |-> auth.value[h]]
                                    ELSE auth.value,
                     body |-> options.body])

\* request(), up to the call of fetch: the arguments of fetch are evaluated
\* first, so a throw of getAuthHeaders leaves fetch uncalled.  Returns the
\* request handed to fetch.
requestSend(this, endpoint, options) ==
    LET url == ToStr(this.baseUrl) \o endpoint
        auth == getAuthHeaders(this)
    IN  IF auth.threw THEN Thrown(auth.error)
        ELSE Returned([url |-> url,
                     method |-> IF options.method = "" THEN "GET" ELSE options.method,
                     headers |-> auth.value,
                     body |-> options.body])

ResponseOk(status) == status >= 200 /\ status <= 299

\* status 429: the Retry-After header, parsed when it is truthy, else 60
RateLimitFailure(response) ==
    LET retryAfter == HeadersGet(response.headers, "Retry-After")
    IN  Thrown(RateLimitError(Str("Rate limit exceeded"),
                    IF Truthy(retryAfter) THEN parseInt(retryAfter.s) ELSE Num(60)))

\* mutant: 403 is not treated as an authentication failure
IsAuthStatus_Only401(status) == status = 401

IsAuthStatus(status) == status = 401 \/ status = 403

AuthenticationFailure(response) ==
    Thrown(AuthenticationError(Str("Authentication failed. Check your Loom access token.")))

\* mutant: ?? in place of ||, so that an empty message is kept
ApiFailure_Nullish(response) ==
    LET fallback == Str("API error: " \o ToString(response.status))
        errorJson == JSONParse(response.body)
        message ==
            IF errorJson.threw \/ Nullish(errorJson.value) THEN fallback
            ELSE IF ~Nullish(Get(errorJson.value, "message"))
                THEN Get(errorJson.value, "message")
            ELSE IF ~Nullish(Get(errorJson.value, "error"))
                THEN Get(errorJson.value, "error")
            ELSE fallback
    IN  Thrown(LoomApiError(message, response.status, undefined))

\* any other status outside 200..299: message || error || 'API error: <status>'
\* of the parsed body; a body that does not parse, or parses to null, keeps
\* the default
ApiFailure(response) ==
    LET fallback == Str("API error: " \o ToString(response.status))
        errorJson == JSONParse(response.body)
        message ==
            IF errorJson.threw \/ Nullish(errorJson.value) THEN fallback
            ELSE OrElse(Get(errorJson.value, "message"),
                        OrElse(Get(errorJson.value, "error"), fallback))
    IN  Thrown(LoomApiError(message, response.status, undefined))

\* mutant: 404 gets no branch of its own and is reported from the body
NotFoundFailure_FromBody(response) == ApiFailure(response)

NotFoundFailure(response) ==
    Thrown(LoomApiError(Str("Resource not found"), 404, Str("NOT_FOUND")))

\* mutant: 204 has no branch of its own and its body is parsed
requestReceive_ParsesNoContent(response) ==
    IF response.status = 429
        THEN [out |-> RateLimitFailure(response), read |-> "none"]
    ELSE IF IsAuthStatus(response.status)
        THEN [out |-> AuthenticationFailure(response), read |-> "none"]
    ELSE IF response.status = 404
        THEN [out |-> NotFoundFailure(response), read |-> "none"]
    ELSE IF ~ResponseOk(response.status)
        THEN [out |-> ApiFailure(response), read |-> "text"]
    ELSE [out |-> JSONParse(response.body), read |-> "json"]

\* request(), from the response on.  read: how the body was consumed.
requestReceive(response) ==
    IF response.status = 429
        THEN [out |-> RateLimitFailure(response), read |-> "none"]
    ELSE IF IsAuthStatus(response.status)
        THEN [out |-> AuthenticationFailure(response), read |-> "none"]
    ELSE IF response.status = 404
        THEN [out |-> NotFoundFailure(response), read |-> "none"]
    ELSE IF ~ResponseOk(response.status)
        THEN [out |-> ApiFailure(response), read |-> "text"]
    ELSE IF response.status = 204
        THEN [out |-> Returned(undefined), read |-> "none"]
    ELSE [out |-> JSONParse(response.body), read |-> "json"]

(***************************************************************************)
(* Wire-to-internal field tables: internal (camelCase) name |-> wire name. *)
(***************************************************************************)
UserFields ==
    [id |-> "id", email |-> "email", name |-> "name", avatarUrl |-> "avatar_url"]
VideoFields ==
    [id |-> "id", title |-> "title", description |-> "description",
     status |-> "status", duration |-> "duration", thumbnailUrl |-> "thumbnail_url",
     embedUrl |-> "embed_url", shareUrl |-> "share_url", downloadUrl |-> "download_url",
     viewCount |-> "view_count", privacy |-> "privacy", createdAt |-> "created_at",
     updatedAt |-> "updated_at", owner |-> "owner", workspace |-> "workspace",
     folderId |-> "folder_id"]
SpaceVideoFields ==
    [id |-> "id", title |-> "title", description |-> "description",
     status |-> "status", duration |-> "duration", thumbnailUrl |-> "thumbnail_url",
     shareUrl |-> "share_url", viewCount |-> "view_count", privacy |-> "privacy",
     createdAt |-> "created_at"]
SearchVideoFields ==
    [id |-> "id", title |-> "title", description |-> "description",
     status |-> "status", duration |-> "duration", thumbnailUrl |-> "thumbnail_url",
     shareUrl |-> "share_url", viewCount |-> "view_count", createdAt |-> "created_at"]
DuplicateVideoFields ==
    [id |-> "id", title |-> "title", description |-> "description",
     status |-> "status", createdAt |-> "created_at"]
SegmentFields ==
    [startTime |-> "start_time", endTime |-> "end_time", text |-> "text"]
AnalyticsFields ==
    [totalViews |-> "total_views", uniqueViewers |-> "unique_viewers",
     averagePercentWatched |-> "average_percent_watched",
     totalWatchTime |-> "total_watch_time"]
CommentFields ==
    [id |-> "id", text |-> "text", timestamp |-> "timestamp", author |-> "author",
     createdAt |-> "created_at"]
FolderFields ==
    [id |-> "id", name |-> "name", videoCount |-> "video_count",
     createdAt |-> "created_at", updatedAt |-> "updated_at", parentId |-> "parent_id"]
WorkspaceFields ==
    [id |-> "id", name |-> "name", memberCount |-> "member_count",
     createdAt |-> "created_at"]
SpaceFields ==
    [id |-> "id", name |-> "name", description |-> "description",
     memberCount |-> "member_count", videoCount |-> "video_count",
     createdAt |-> "created_at"]
OEmbedFields ==
    [version |-> "version", type |-> "type", html |-> "html", width |-> "width",
     height |-> "height", title |-> "title", thumbnailUrl |-> "thumbnail_url",
     thumbnailWidth |-> "thumbnail_width", thumbnailHeight |-> "thumbnail_height",
     providerName |-> "provider_name", providerUrl |-> "provider_url",
     duration |-> "duration"]
RecordLinkFields ==
    [id |-> "id", url |-> "url", title |-> "title", expiresAt |-> "expires_at"]

\* { a: data.x, b: data.y, ... }: reading a property of undefined or null throws
MapEntity(data, F) ==
    IF Nullish(data)
        THEN Thrown(TypeError("Cannot read properties of " \o ToStr(data)))
        ELSE Returned(Obj([k \in DOMAIN F |-> Get(data, F[k])]))

\* data[key].map((x) => ({ ... }))
MapList(data, key, F) ==
    IF Nullish(data)
        THEN Thrown(TypeError("Cannot read properties of " \o ToStr(data)))
    ELSE LET list == Get(data, key)
         IN  IF list.t # "array"
                THEN Thrown(TypeError("Cannot read properties of " \o ToStr(list)
                                        \o " (reading 'map')"))
             ELSE IF \E i \in 1..Len(list.a) : Nullish(list.a[i])
                THEN Thrown(TypeError("Cannot read properties of undefined"))
             ELSE Returned(Arr([i \in 1..Len(list.a) |->
                                Obj([k \in DOMAIN F |-> Get(list.a[i], F[k])])]))

\* mutant: hasMore computed from the number of items
Paginated_ByCount(data, key, F) ==
    LET items == MapList(data, key, F)
    IN  IF items.threw THEN items
        ELSE Returned(Obj([items |-> items.value,
                           nextCursor |-> Get(data, "next_cursor"),
                           hasMore |-> Bool(Len(items.value.a) > 0)]))

\* { items, nextCursor: data.next_cursor, hasMore: !!data.next_cursor }
Paginated(data, key, F) ==
    LET items == MapList(data, key, F)
    IN  IF items.threw THEN items
        ELSE Returned(Obj([items |-> items.value,
                         nextCursor |-> Get(data, "next_cursor"),
                         hasMore |-> Bool(Truthy(Get(data, "next_cursor")))]))

\* Array.prototype.join: undefined and null elements give the empty string
RECURSIVE Join(_, _)
Join(a, sep) ==
    IF a = <<>> THEN ""
    ELSE (IF Nullish(Head(a)) THEN "" ELSE ToStr(Head(a)))
            \o (IF Tail(a) = <<>> THEN "" ELSE sep \o Join(Tail(a), sep))

(***************************************************************************)
(* The operations of LoomClient.                                           *)
(***************************************************************************)
ListOps == {"listVideos", "listFolders", "listSpaces", "listSpaceVideos", "searchVideos"}
MutatingOps ==
    {"updateVideo", "deleteVideo", "createFolder", "updateFolder", "deleteFolder",
     "createComment", "addVideoToSpace", "removeVideoFromSpace", "moveVideoToFolder",
     "duplicateVideo", "createRecordLink"}
ReadOps ==
    {"getCurrentUser", "getVideo", "getTranscript", "getVideoAnalytics", "listComments",
     "getFolder", "listWorkspaces", "getWorkspace", "getSpace", "getOEmbed",
     "getEmbedHtml"}
\* the operations registerLoomTools exposes, one tool each
ToolOps == ListOps \cup MutatingOps \cup ReadOps
AdapterOps == ToolOps \cup {"testConnection"}

Options(method, body) == [method |-> method, body |-> body]
\* no options given: fetch's default method applies
NoOptions == Options("", undefined)

\* queryString ? `${path}?${queryString}` : path
ListEndpoint(path, params) ==
    LET queryString == QueryString(SetIf(params.perPage, "per_page")
                                    \o SetIf(params.nextCursor, "next_cursor"))
    IN  IF queryString # "" THEN path \o "?" \o queryString ELSE path

\* mutant: the move sends the video's id along with the folder id
moveVideoToFolder_WithVideoId(a) ==
    [endpoint |-> "/videos/" \o ToStr(a.videoId),
     options |-> Options("PATCH", JSONStringify(Obj([id |-> a.videoId,
                                                     folder_id |-> a.folderId])))]

\* the request of moveVideoToFolder(videoId, folderId)
moveVideoToFolder(a) ==
    [endpoint |-> "/videos/" \o ToStr(a.videoId),
     options |-> Options("PATCH", JSONStringify(Obj([folder_id |-> a.folderId])))]

\* the endpoint and options each operation hands to request()
RequestOf(op, a) ==
    CASE op \in {"getCurrentUser", "testConnection"} ->
            [endpoint |-> "/me", options |-> NoOptions]
      [] op = "listVideos" ->
            [endpoint |-> ListEndpoint("/videos", a), options |-> NoOptions]
      [] op \in {"getVideo", "getEmbedHtml"} ->
            [endpoint |-> "/videos/" \o ToStr(a.videoId), options |-> NoOptions]
      [] op = "updateVideo" ->
            [endpoint |-> "/videos/" \o ToStr(a.videoId),
             options |-> Options("PATCH", JSONStringify(a.params))]
      [] op = "deleteVideo" ->
            [endpoint |-> "/videos/" \o ToStr(a.videoId),
             options |-> Options("DELETE", undefined)]
      [] op = "getTranscript" ->
            [endpoint |-> "/videos/" \o ToStr(a.videoId) \o "/transcript",
             options |-> NoOptions]
      [] op = "getVideoAnalytics" ->
            [endpoint |-> "/videos/" \o ToStr(a.videoId) \o "/analytics",
             options |-> NoOptions]
      [] op = "listComments" ->
            [endpoint |-> "/videos/" \o ToStr(a.videoId) \o "/comments",
             options |-> NoOptions]
      [] op = "createComment" ->
            [endpoint |-> "/videos/" \o ToStr(a.videoId) \o "/comments",
             options |-> Options("POST", JSONStringify(a.params))]
      [] op = "listFolders" ->
            [endpoint |-> ListEndpoint("/folders", a), options |-> NoOptions]
      [] op = "createFolder" ->
            [endpoint |-> "/folders",
             options |-> Options("POST", JSONStringify(Obj(
                IF Truthy(a.parentId)
                    THEN [name |-> a.name, parent_id |-> a.parentId]
                    ELSE [name |-> a.name])))]
      [] op = "getFolder" ->
            [endpoint |-> "/folders/" \o ToStr(a.folderId), options |-> NoOptions]
      [] op = "updateFolder" ->
            [endpoint |-> "/folders/" \o ToStr(a.folderId),
             options |-> Options("PATCH", JSONStringify(a.params))]
      [] op = "deleteFolder" ->
            [endpoint |-> "/folders/" \o ToStr(a.folderId),
             options |-> Options("DELETE", undefined)]
      [] op = "listWorkspaces" ->
            [endpoint |-> "/workspaces", options |-> NoOptions]
      [] op = "getWorkspace" ->
            [endpoint |-> "/workspaces/" \o ToStr(a.workspaceId), options |-> NoOptions]
      [] op = "listSpaces" ->
            [endpoint |-> ListEndpoint("/spaces", a), options |-> NoOptions]
      [] op = "getSpace" ->
            [endpoint |-> "/spaces/" \o ToStr(a.spaceId), options |-> NoOptions]
      [] op = "listSpaceVideos" ->
            [endpoint |-> ListEndpoint("/spaces/" \o ToStr(a.spaceId) \o "/videos", a),
             options |-> NoOptions]
      [] op = "addVideoToSpace" ->
            [endpoint |-> "/spaces/" \o ToStr(a.spaceId) \o "/videos",
             options |-> Options("POST", JSONStringify(Obj([video_id |-> a.videoId])))]
      [] op = "removeVideoFromSpace" ->
            [endpoint |-> "/spaces/" \o ToStr(a.spaceId) \o "/videos/" \o ToStr(a.videoId),
             options |-> Options("DELETE", undefined)]
      [] op = "getOEmbed" ->
            [endpoint |-> "/oembed?" \o QueryString(<<(<<"url", ToStr(a.url)>>)>>
                                            \o SetIf(a.maxWidth, "maxwidth")
                                            \o SetIf(a.maxHeight, "maxheight")),
             options |-> NoOptions]
      [] op = "createRecordLink" ->
            [endpoint |-> "/record-links",
             options |-> Options("POST", JSONStringify(Obj(
                (IF Truthy(a.title) THEN ("title" :> a.title) ELSE <<>>)
                @@ (IF Truthy(a.folderId) THEN ("folder_id" :> a.folderId) ELSE <<>>)
                @@ (IF Truthy(a.expiresInMinutes)
                        THEN ("expires_in_minutes" :> a.expiresInMinutes) ELSE <<>>))))]
      [] op = "moveVideoToFolder" -> moveVideoToFolder(a)
      [] op = "duplicateVideo" ->
            [endpoint |-> "/videos/" \o ToStr(a.videoId) \o "/duplicate",
             options |-> Options("POST", undefined)]
      [] op = "searchVideos" ->
            [endpoint |-> "/videos/search?" \o QueryString(<<(<<"q", ToStr(a.query)>>)>>
                                            \o SetIf(a.perPage, "per_page")
                                            \o SetIf(a.nextCursor, "next_cursor")),
             options |-> NoOptions]

\* mutant: fullText taken from the response when it carries one
TranscriptOf_ServerText(data) ==
    LET transcript == MapList(data, "transcript", SegmentFields)
    IN  IF transcript.threw THEN transcript
        ELSE Returned(Obj([transcript |-> transcript.value,
                         fullText |-> OrElse(Get(data, "full_text"),
                                        Str(Join([i \in 1..Len(transcript.value.a) |->
                                                  transcript.value.a[i].f.text], " ")))]))

\* getTranscript, after the request
TranscriptOf(data) ==
    LET transcript == MapList(data, "transcript", SegmentFields)
    IN  IF transcript.threw THEN transcript
        ELSE Returned(Obj([transcript |-> transcript.value,
                         fullText |-> Str(Join([i \in 1..Len(transcript.value.a) |->
                                                  transcript.value.a[i].f.text], " "))]))

\* getEmbedHtml, after getVideo
EmbedHtmlOf(a, data) ==
    LET video == MapEntity(data, VideoFields)
        width == OrElse(a.width, Num(640))
        height == OrElse(a.height, Num(360))
        autoplay == IF Truthy(a.autoplay) THEN "?autoplay=1" ELSE ""
    IN  IF video.threw THEN video
        ELSE LET embedUrl == OrElse(video.value.f.embedUrl,
                                Str("https://www.loom.com/embed/" \o ToStr(a.videoId)))
             IN  Returned(Obj([html |-> Str(
                    "<iframe src=\"" \o ToStr(embedUrl) \o autoplay
                    \o "\" width=\"" \o ToStr(width)
                    \o "\" height=\"" \o ToStr(height)
                    \o "\" frameborder=\"0\" webkitallowfullscreen mozallowfullscreen allowfullscreen></iframe>")]))

\* what each operation makes of the value request() returned
MapResult(op, a, data) ==
    CASE op = "getCurrentUser" -> MapEntity(data, UserFields)
      [] op = "listVideos" -> Paginated(data, "videos", VideoFields)
      [] op = "getVideo" -> MapEntity(data, VideoFields)
      [] op = "updateVideo" -> Returned(data)
      [] op \in {"deleteVideo", "deleteFolder", "addVideoToSpace",
                 "removeVideoFromSpace", "moveVideoToFolder"} -> Returned(undefined)
      [] op = "getTranscript" -> TranscriptOf(data)
      [] op = "getVideoAnalytics" -> MapEntity(data, AnalyticsFields)
      [] op = "listComments" -> MapList(data, "comments", CommentFields)
      [] op = "createComment" -> MapEntity(data, CommentFields)
      [] op = "listFolders" -> Paginated(data, "folders", FolderFields)
      [] op \in {"createFolder", "getFolder", "updateFolder"} ->
            MapEntity(data, FolderFields)
      [] op = "listWorkspaces" -> MapList(data, "workspaces", WorkspaceFields)
      [] op = "getWorkspace" -> MapEntity(data, WorkspaceFields)
      [] op = "listSpaces" -> Paginated(data, "spaces", SpaceFields)
      [] op = "getSpace" -> MapEntity(data, SpaceFields)
      [] op = "listSpaceVideos" -> Paginated(data, "videos", SpaceVideoFields)
      [] op = "getOEmbed" -> MapEntity(data, OEmbedFields)
      [] op = "createRecordLink" -> MapEntity(data, RecordLinkFields)
      [] op = "getEmbedHtml" -> EmbedHtmlOf(a, data)
      [] op = "duplicateVideo" -> MapEntity(data, DuplicateVideoFields)
      [] op = "searchVideos" -> Paginated(data, "videos", SearchVideoFields)

\* mutant: testConnection without its catch
testConnection_NoCatch(user) ==
    IF user.threw
        THEN user
        ELSE Returned(Obj([connected |-> Bool(TRUE),
                         message |-> Str("Connected as " \o ToStr(user.value.f.name))]))

\* testConnection: try { getCurrentUser } catch { connected: false }
testConnection(user) ==
    IF user.threw
        THEN Returned(Obj([connected |-> Bool(FALSE), message |-> user.error.message]))
        ELSE Returned(Obj([connected |-> Bool(TRUE),
                         message |-> Str("Connected as " \o ToStr(user.value.f.name))]))

\* mutant: deleteVideo reports a failed request as a result
OpOutcome_DeleteSwallows(op, a, req) ==
    IF op = "testConnection"
        THEN testConnection(IF req.threw THEN req
                            ELSE MapResult("getCurrentUser", a, req.value))
    ELSE IF req.threw
        THEN (IF op = "deleteVideo"
                THEN Returned(Obj([deleted |-> Bool(FALSE), message |-> req.error.message]))
                ELSE req)
    ELSE MapResult(op, a, req.value)

\* the completion of operation op, given the completion of its request
OpOutcome(op, a, req) ==
    IF op = "testConnection"
        THEN testConnection(IF req.threw THEN req
                            ELSE MapResult("getCurrentUser", a, req.value))
    ELSE IF req.threw THEN req
    ELSE MapResult(op, a, req.value)

(***************************************************************************)
(* The tool handlers of registerLoomTools: one adapter call inside try,    *)
(* the envelope built from its result, catch turning any throw into the    *)
(* failure envelope.                                                       *)
(***************************************************************************)
Text(text) == [type |-> "text", text |-> text]

\* { success: true, message, ...result }: the properties of result come last
Spread(base, result) == IF result.t = "object" THEN Obj(result.f @@ base) ELSE Obj(base)

Done(message) == Obj([success |-> Bool(TRUE), message |-> Str(message)])
DoneWith(message, key, value) ==
    Obj((key :> value) @@ [success |-> Bool(TRUE), message |-> Str(message)])

\* the object a handler serializes on success
SuccessPayload(op, a, result) ==
    CASE op = "updateVideo" ->
            Spread([success |-> Bool(TRUE), message |-> Str("Video updated")], result)
      [] op = "deleteVideo" -> Done("Video " \o ToStr(a.videoId) \o " deleted")
      [] op = "moveVideoToFolder" ->
            Done("Video moved to folder " \o ToStr(a.folderId))
      [] op = "duplicateVideo" -> DoneWith("Video duplicated", "video", result)
      [] op = "createComment" -> DoneWith("Comment created", "comment", result)
      [] op = "createFolder" -> DoneWith("Folder created", "folder", result)
      [] op = "updateFolder" -> DoneWith("Folder updated", "folder", result)
      [] op = "deleteFolder" -> Done("Folder " \o ToStr(a.folderId) \o " deleted")
      [] op = "addVideoToSpace" ->
            Done("Video " \o ToStr(a.videoId) \o " added to space " \o ToStr(a.spaceId))
      [] op = "removeVideoFromSpace" ->
            Done("Video " \o ToStr(a.videoId) \o " removed from space "
                    \o ToStr(a.spaceId))
      [] op = "createRecordLink" -> DoneWith("Record link created", "link", result)
      [] OTHER -> result

\* mutant: only the adapter's own failure classes are caught
ToolHandler_CatchApiOnly(op, a, completed) ==
    IF completed.threw
        THEN IF completed.error.name
                    \in {"LoomApiError", "AuthenticationError", "RateLimitError"}
                THEN [content |-> <<Text(RawText("Error: "
                                        \o ToStr(formatError(completed.error))))>>,
                      isError |-> TRUE]
                ELSE [uncaught |-> completed.error]
        ELSE [content |-> <<Text(JSONStringify(SuccessPayload(op, a, completed.value)))>>]

\* mutant: the handler of loom_remove_video_from_space calls addVideoToSpace
Handlers_RemoveCallsAdd ==
    [loom_get_current_user |-> "getCurrentUser",
     loom_list_videos |-> "listVideos",
     loom_get_video |-> "getVideo",
     loom_update_video |-> "updateVideo",
     loom_delete_video |-> "deleteVideo",
     loom_search_videos |-> "searchVideos",
     loom_move_video_to_folder |-> "moveVideoToFolder",
     loom_duplicate_video |-> "duplicateVideo",
     loom_get_transcript |-> "getTranscript",
     loom_get_video_analytics |-> "getVideoAnalytics",
     loom_list_comments |-> "listComments",
     loom_create_comment |-> "createComment",
     loom_list_folders |-> "listFolders",
     loom_create_folder |-> "createFolder",
     loom_get_folder |-> "getFolder",
     loom_update_folder |-> "updateFolder",
     loom_delete_folder |-> "deleteFolder",
     loom_list_workspaces |-> "listWorkspaces",
     loom_get_workspace |-> "getWorkspace",
     loom_list_spaces |-> "listSpaces",
     loom_get_space |-> "getSpace",
     loom_list_space_videos |-> "listSpaceVideos",
     loom_add_video_to_space |-> "addVideoToSpace",
     loom_remove_video_from_space |-> "addVideoToSpace",
     loom_get_oembed |-> "getOEmbed",
     loom_get_embed_html |-> "getEmbedHtml",
     loom_create_record_link |-> "createRecordLink"]

\* the adapter operation each registered tool's handler calls
Handlers ==
    [loom_get_current_user |-> "getCurrentUser",
     loom_list_videos |-> "listVideos",
     loom_get_video |-> "getVideo",
     loom_update_video |-> "updateVideo",
     loom_delete_video |-> "deleteVideo",
     loom_search_videos |-> "searchVideos",
     loom_move_video_to_folder |-> "moveVideoToFolder",
     loom_duplicate_video |-> "duplicateVideo",
     loom_get_transcript |-> "getTranscript",
     loom_get_video_analytics |-> "getVideoAnalytics",
     loom_list_comments |-> "listComments",
     loom_create_comment |-> "createComment",
     loom_list_folders |-> "listFolders",
     loom_create_folder |-> "createFolder",
     loom_get_folder |-> "getFolder",
     loom_update_folder |-> "updateFolder",
     loom_delete_folder |-> "deleteFolder",
     loom_list_workspaces |-> "listWorkspaces",
     loom_get_workspace |-> "getWorkspace",
     loom_list_spaces |-> "listSpaces",
     loom_get_space |-> "getSpace",
     loom_list_space_videos |-> "listSpaceVideos",
     loom_add_video_to_space |-> "addVideoToSpace",
     loom_remove_video_from_space |-> "removeVideoFromSpace",
     loom_get_oembed |-> "getOEmbed",
     loom_get_embed_html |-> "getEmbedHtml",
     loom_create_record_link |-> "createRecordLink"]

\* what may be invoked among Ops: a tool, whose handler calls its operation,
\* or testConnection, which has no tool and is called directly
Entries(Ops) ==
    {[tool |-> t, op |-> Handlers[t]] : t \in {u \in DOMAIN Handlers : Handlers[u] \in Ops}}
        \cup {[tool |-> "", op |-> op] : op \in Ops \cap {"testConnection"}}

\* what the handler of op's tool returns: completed is the adapter call's
\* completion.
ToolHandler(op, a, completed) ==
    IF completed.threw
        THEN [content |-> <<Text(RawText("Error: " \o ToStr(formatError(completed.error))))>>,
              isError |-> TRUE]
        ELSE [content |-> <<Text(JSONStringify(SuccessPayload(op, a, completed.value)))>>]

(***************************************************************************)
(* Inputs: credentials, arguments and responses.                           *)
(***************************************************************************)
\* the headers of inbound requests
InboundHeaders ==
    {t @@ b @@ o :
        t \in {<<>>, "X-Loom-Access-Token" :> "", "X-Loom-Access-Token" :> "tokA"},
        b \in {<<>>, "X-Loom-Base-URL" :> "", "X-Loom-Base-URL" :> "https://eu.loom.test/v1"},
        o \in {<<>>, "Authorization" :> "Bearer tokC"}}

\* credentials handed to createLoomClient: what the resolver produces, and an
\* empty token or an empty base URL handed over directly
AllCredentials ==
    {parseTenantCredentials(h) : h \in InboundHeaders}
        \cup {[accessToken |-> Str(""), baseUrl |-> undefined],
              [accessToken |-> Str("tokB"), baseUrl |-> Str("")]}

\* credentials of the tenants of the concurrent specification
TenantCredentials ==
    {[accessToken |-> Str("tokA"), baseUrl |-> undefined],
     [accessToken |-> Str("tokB"), baseUrl |-> Str("https://eu.loom.test/v1")],
     [accessToken |-> undefined, baseUrl |-> undefined]}

ListParams ==
    {[perPage |-> pp, nextCursor |-> nc] :
        pp \in {undefined, Num(10)}, nc \in {undefined, Str(""), Str("c0")}}

ArgsOf(op) ==
    CASE op \in {"getCurrentUser", "testConnection", "listWorkspaces"} -> {<<>>}
      [] op \in {"listVideos", "listFolders", "listSpaces"} -> ListParams
      [] op \in {"getVideo", "deleteVideo", "getTranscript", "getVideoAnalytics",
                 "listComments", "duplicateVideo"} ->
            {[videoId |-> Str("abc123")]}
      [] op = "updateVideo" ->
            {[videoId |-> Str("abc123"), params |-> Obj(q)] :
                q \in {[title |-> Str("T"), description |-> undefined,
                        privacy |-> undefined],
                       [title |-> undefined, description |-> undefined,
                        privacy |-> Str("public")]}}
      [] op = "createComment" ->
            {[videoId |-> Str("abc123"),
              params |-> Obj([text |-> Str("hi"), timestamp |-> ts])] :
                ts \in {undefined, Num(5)}}
      [] op = "createFolder" ->
            {[name |-> Str("F"), parentId |-> pid] :
                pid \in {undefined, Str(""), Str("f0")}}
      [] op \in {"getFolder", "deleteFolder"} -> {[folderId |-> Str("f1")]}
      [] op = "updateFolder" ->
            {[folderId |-> Str("f1"), params |-> Obj([name |-> Str("G")])]}
      [] op = "getWorkspace" -> {[workspaceId |-> Str("w1")]}
      [] op = "getSpace" -> {[spaceId |-> Str("s1")]}
      [] op = "listSpaceVideos" ->
            {[spaceId |-> Str("s1")] @@ q : q \in ListParams}
      [] op \in {"addVideoToSpace", "removeVideoFromSpace"} ->
            {[spaceId |-> Str("s1"), videoId |-> Str("abc123")]}
      [] op = "getOEmbed" ->
            {[url |-> Str("https://www.loom.com/share/abc123"), maxWidth |-> w,
              maxHeight |-> h] :
                w \in {undefined, Num(0), Num(800)}, h \in {undefined, Num(450)}}
      [] op = "createRecordLink" ->
            {[title |-> t, folderId |-> f, expiresInMinutes |-> e] :
                t \in {undefined, Str("T")}, f \in {undefined, Str("f1")},
                e \in {undefined, Num(0), Num(30)}}
      [] op = "getEmbedHtml" ->
            {[videoId |-> Str("abc123"), width |-> w, height |-> h, autoplay |-> p] :
                w \in {undefined, Num(0), Num(800)}, h \in {undefined, Num(0), Num(450)},
                p \in {undefined, Bool(TRUE), Bool(FALSE)}}
      [] op = "moveVideoToFolder" ->
            {[videoId |-> Str("abc123"), folderId |-> f] : f \in {Str("f1"), Str("")}}
      [] op = "searchVideos" ->
            {[query |-> Str("demo day")] @@ q : q \in ListParams}

\* wire records: every field of the table present, or only the basic ones
WireNames(F) == {F[k] : k \in DOMAIN F}
WireFull(F) == Obj([w \in WireNames(F) |-> Str(w \o "#1")])
WireSparse(F) ==
    Obj([w \in WireNames(F) \cap {"id", "name", "title", "text", "status", "created_at"}
            |-> Str(w \o "#2")])
WireItems(F, n) == Arr([i \in 1..n |-> IF i % 2 = 1 THEN WireFull(F) ELSE WireSparse(F)])

NextCursors == {<<>>, "next_cursor" :> null, "next_cursor" :> Str(""),
                "next_cursor" :> Str("c1")}

ListBodies(key, F) ==
    {JsonText(Obj((key :> WireItems(F, n)) @@ c)) : n \in 0..MaxItems, c \in NextCursors}
        \cup {JsonText(Obj(<<>>))}
ArrayBodies(key, F) == {JsonText(Obj(key :> WireItems(F, n))) : n \in 0..MaxItems}
EntityBodies(F) == {JsonText(WireFull(F)), JsonText(WireSparse(F))}

\* a transcript of two segments that also carries a text of its own
HelloWorld ==
    Obj([transcript |-> Arr(<<Obj([start_time |-> Num(0), end_time |-> Num(2),
                                   text |-> Str("Hello")]),
                              Obj([start_time |-> Num(2), end_time |-> Num(5),
                                   text |-> Str("world")])>>),
         full_text |-> Str("Hello, world!"),
         fullText |-> Str("Hello, world!")])

\* a list of one video that carries every wire field of a video
FullVideoList == JsonText(Obj("videos" :> WireItems(VideoFields, 1)))

\* the bodies a 2xx response to op may carry
SuccessBodies(op) ==
    {RawText(""), JsonText(null)} \cup
    CASE op \in {"getCurrentUser", "testConnection"} -> EntityBodies(UserFields)
      [] op = "listVideos" -> ListBodies("videos", VideoFields)
      [] op \in {"getVideo", "getEmbedHtml"} -> EntityBodies(VideoFields)
      [] op = "updateVideo" ->
            {JsonText(Obj([id |-> Str("abc123")])),
             JsonText(Obj([id |-> Str("abc123"), success |-> Bool(FALSE),
                           message |-> Str("queued")]))}
      [] op = "getTranscript" ->
            ArrayBodies("transcript", SegmentFields) \cup {JsonText(HelloWorld)}
      [] op = "getVideoAnalytics" -> EntityBodies(AnalyticsFields)
      [] op = "listComments" -> ArrayBodies("comments", CommentFields)
      [] op = "createComment" -> EntityBodies(CommentFields)
      [] op = "listFolders" -> ListBodies("folders", FolderFields)
      [] op \in {"createFolder", "getFolder", "updateFolder"} ->
            EntityBodies(FolderFields)
      [] op = "listWorkspaces" -> ArrayBodies("workspaces", WorkspaceFields)
      [] op = "getWorkspace" -> EntityBodies(WorkspaceFields)
      [] op = "listSpaces" -> ListBodies("spaces", SpaceFields)
      [] op = "getSpace" -> EntityBodies(SpaceFields)
      [] op = "listSpaceVideos" ->
            ListBodies("videos", SpaceVideoFields) \cup {FullVideoList}
      [] op = "getOEmbed" -> EntityBodies(OEmbedFields)
      [] op = "createRecordLink" -> EntityBodies(RecordLinkFields)
      [] op = "duplicateVideo" ->
            EntityBodies(DuplicateVideoFields) \cup {JsonText(WireFull(VideoFields))}
      [] op = "searchVideos" ->
            ListBodies("videos", SearchVideoFields) \cup {FullVideoList}
      [] OTHER -> {JsonText(Obj(<<>>))}

\* the bodies an error response may carry
ErrorBodies ==
    {RawText(""), RawText("<html>Bad Gateway</html>"), JsonText(null), JsonText(Num(5))}
        \cup {JsonText(Obj(m @@ e)) :
                m \in {<<>>, "message" :> Str(""), "message" :> null,
                       "message" :> Str("quota exceeded")},
                e \in {<<>>, "error" :> Str(""), "error" :> Str("bad_request")}}

RetryAfterHeaders ==
    {<<>>} \cup {"Retry-After" :> v : v \in {"", "30", "0", "30s", "Wed, 21 Oct 2026 07:28:00 GMT"}}

Response(status, headers, body) == [status |-> status, headers |-> headers, body |-> body]

\* the responses the remote API may give to op
ResponsesFor(op) ==
    {Response(429, h, RawText("")) : h \in RetryAfterHeaders}
    \cup {Response(st, <<>>, b) : st \in {401, 403, 404},
            b \in {RawText(""), JsonText(Obj([message |-> Str("quota exceeded")]))}}
    \cup {Response(st, <<>>, b) : st \in {400, 500}, b \in ErrorBodies}
    \cup {Response(304, <<>>, RawText(""))}
    \cup {Response(204, <<>>, RawText(""))}
    \cup {Response(200, <<>>, b) : b \in SuccessBodies(op)}
    \cup {Response(201, <<>>, JsonText(Obj(<<>>)))}

(***************************************************************************)
(* State.  Each instance serves one inbound request at a time: a client is *)
(* created from the request's credentials, a tool (or, for testConnection, *)
(* the adapter) is invoked, and the invocation is suspended only while its *)
(* fetch is outstanding.                                                   *)
(***************************************************************************)
VARIABLES
    tenant,     \* the credentials handed to createLoomClient
    client,     \* the LoomClientImpl instance: credentials and baseUrl
    pc,         \* "new", "idle", "awaiting" (fetch outstanding) or "done"
    call,       \* the invocation: operation and arguments
    sent,       \* the request handed to fetch by this invocation
    netCalls,   \* calls of fetch made by this invocation
    response,   \* the response fetch resolved with
    bodyRead,   \* how the response body was consumed: "none", "text", "json"
    reqOut,     \* completion of request()
    outcome,    \* completion of the adapter operation
    envelope,   \* what the tool handler returned
    adapterCalls \* the adapter operations called for this invocation, in order

vars == <<tenant, client, pc, call, sent, netCalls, response, bodyRead, reqOut,
          outcome, envelope, adapterCalls>>

Nil == [t |-> "nil"]

Init ==
    /\ tenant = [i \in Inst |-> Nil]
    /\ client = [i \in Inst |-> Nil]
    /\ pc = [i \in Inst |-> "new"]
    /\ call = [i \in Inst |-> Nil]
    /\ sent = [i \in Inst |-> Nil]
    /\ netCalls = [i \in Inst |-> 0]
    /\ response = [i \in Inst |-> Nil]
    /\ bodyRead = [i \in Inst |-> "none"]
    /\ reqOut = [i \in Inst |-> Nil]
    /\ outcome = [i \in Inst |-> Nil]
    /\ envelope = [i \in Inst |-> Nil]
    /\ adapterCalls = [i \in Inst |-> <<>>]

\* the invocation completes: the operation's completion and, for a tool, the
\* handler's envelope
Complete(i, op, a, req) ==
    LET completed == OpOutcome(op, a, req)
    IN  /\ reqOut' = [reqOut EXCEPT ![i] = req]
        /\ outcome' = [outcome EXCEPT ![i] = completed]
        /\ envelope' = [envelope EXCEPT ![i] =
                            IF op \in ToolOps THEN ToolHandler(op, a, completed) ELSE Nil]
        /\ pc' = [pc EXCEPT ![i] = "done"]

\* mutant: one client shared by all instances, rebound by every request
CreateClient_Singleton(i, Creds) ==
    /\ pc[i] # "awaiting"
    /\ \E credentials \in Creds :
        /\ tenant' = [tenant EXCEPT ![i] = credentials]
        /\ client' = [j \in Inst |->
                        IF j = i \/ client[j] # Nil
                            THEN createLoomClient(credentials) ELSE client[j]]
    /\ pc' = [pc EXCEPT ![i] = "idle"]
    /\ call' = [call EXCEPT ![i] = Nil]
    /\ sent' = [sent EXCEPT ![i] = Nil]
    /\ netCalls' = [netCalls EXCEPT ![i] = 0]
    /\ response' = [response EXCEPT ![i] = Nil]
    /\ bodyRead' = [bodyRead EXCEPT ![i] = "none"]
    /\ reqOut' = [reqOut EXCEPT ![i] = Nil]
    /\ outcome' = [outcome EXCEPT ![i] = Nil]
    /\ envelope' = [envelope EXCEPT ![i] = Nil]
    /\ adapterCalls' = [adapterCalls EXCEPT ![i] = <<>>]

\* an inbound request arrives: createLoomClient(credentials)
CreateClient(i, Creds) ==
    /\ pc[i] # "awaiting"
    /\ \E credentials \in Creds :
        /\ tenant' = [tenant EXCEPT ![i] = credentials]
        /\ client' = [client EXCEPT ![i] = createLoomClient(credentials)]
    /\ pc' = [pc EXCEPT ![i] = "idle"]
    /\ call' = [call EXCEPT ![i] = Nil]
    /\ sent' = [sent EXCEPT ![i] = Nil]
    /\ netCalls' = [netCalls EXCEPT ![i] = 0]
    /\ response' = [response EXCEPT ![i] = Nil]
    /\ bodyRead' = [bodyRead EXCEPT ![i] = "none"]
    /\ reqOut' = [reqOut EXCEPT ![i] = Nil]
    /\ outcome' = [outcome EXCEPT ![i] = Nil]
    /\ envelope' = [envelope EXCEPT ![i] = Nil]
    /\ adapterCalls' = [adapterCalls EXCEPT ![i] = <<>>]

\* an operation is invoked and runs up to its fetch; without a token it
\* completes at once
Invoke(i, Ops) ==
    /\ pc[i] = "idle"
    /\ \E entry \in Entries(Ops) : \E a \in ArgsOf(entry.op) :
        LET op == entry.op
            r == RequestOf(op, a)
            req == requestSend(client[i], r.endpoint, r.options)
        IN  /\ call' = [call EXCEPT ![i] = [tool |-> entry.tool, op |-> op, args |-> a]]
            /\ adapterCalls' = [adapterCalls EXCEPT ![i] = <<[op |-> op, args |-> a]>>]
            /\ response' = [response EXCEPT ![i] = Nil]
            /\ bodyRead' = [bodyRead EXCEPT ![i] = "none"]
            /\ IF req.threw
                THEN /\ sent' = [sent EXCEPT ![i] = Nil]
                     /\ netCalls' = [netCalls EXCEPT ![i] = 0]
                     /\ Complete(i, op, a, req)
                ELSE /\ sent' = [sent EXCEPT ![i] = req.value]
                     /\ netCalls' = [netCalls EXCEPT ![i] = 1]
                     /\ pc' = [pc EXCEPT ![i] = "awaiting"]
                     /\ reqOut' = [reqOut EXCEPT ![i] = Nil]
                     /\ outcome' = [outcome EXCEPT ![i] = Nil]
                     /\ envelope' = [envelope EXCEPT ![i] = Nil]
    /\ UNCHANGED <<tenant, client>>

\* mutant: an authentication failure makes the adapter forget its token
Receive_ForgetsTokenOn401(i, resp) ==
    LET r == requestReceive(resp)
    IN  /\ response' = [response EXCEPT ![i] = resp]
        /\ bodyRead' = [bodyRead EXCEPT ![i] = r.read]
        /\ Complete(i, call[i].op, call[i].args, r.out)
        /\ client' = [client EXCEPT ![i] =
                        IF resp.status = 401
                            THEN [@ EXCEPT !.credentials.accessToken = undefined]
                            ELSE @]
        /\ UNCHANGED <<tenant, call, sent, netCalls, adapterCalls>>

\* mutant: a rate-limited invocation is abandoned without an answer
Receive_AbandonsOn429(i, resp) ==
    IF resp.status = 429
        THEN /\ pc' = [pc EXCEPT ![i] = "idle"]
             /\ call' = [call EXCEPT ![i] = Nil]
             /\ sent' = [sent EXCEPT ![i] = Nil]
             /\ netCalls' = [netCalls EXCEPT ![i] = 0]
             /\ adapterCalls' = [adapterCalls EXCEPT ![i] = <<>>]
             /\ UNCHANGED <<tenant, client, response, bodyRead, reqOut, outcome, envelope>>
        ELSE LET r == requestReceive(resp)
             IN  /\ response' = [response EXCEPT ![i] = resp]
                 /\ bodyRead' = [bodyRead EXCEPT ![i] = r.read]
                 /\ Complete(i, call[i].op, call[i].args, r.out)
                 /\ UNCHANGED <<tenant, client, call, sent, netCalls, adapterCalls>>

\* the rest of request(), of the operation and of the handler, once fetch
\* has resolved with resp
Receive(i, resp) ==
    LET r == requestReceive(resp)
    IN  /\ response' = [response EXCEPT ![i] = resp]
        /\ bodyRead' = [bodyRead EXCEPT ![i] = r.read]
        /\ Complete(i, call[i].op, call[i].args, r.out)
        /\ UNCHANGED <<tenant, client, call, sent, netCalls, adapterCalls>>

\* mutant: a 429 makes request() call fetch again
Respond_RetryOn429(i, Statuses) ==
    /\ pc[i] = "awaiting"
    /\ \E resp \in ResponsesFor(call[i].op) :
        /\ resp.status \in Statuses
        /\ IF resp.status = 429 /\ netCalls[i] < 3
            THEN /\ netCalls' = [netCalls EXCEPT ![i] = netCalls[i] + 1]
                 /\ UNCHANGED <<tenant, client, pc, call, sent, response, bodyRead,
                                reqOut, outcome, envelope, adapterCalls>>
            ELSE Receive(i, resp)

\* fetch resolves
Respond(i, Statuses) ==
    /\ pc[i] = "awaiting"
    /\ \E resp \in ResponsesFor(call[i].op) :
        /\ resp.status \in Statuses
        /\ Receive(i, resp)

\* fetch rejects (transport error): the rejection propagates out of request()
FetchFails(i) ==
    /\ pc[i] = "awaiting"
    /\ Complete(i, call[i].op, call[i].args, Thrown(TypeError("fetch failed")))
    /\ UNCHANGED <<tenant, client, call, sent, netCalls, response, bodyRead, adapterCalls>>

\* the invocation's result is handed back; the client stays usable
Return(i) ==
    /\ pc[i] = "done"
    /\ pc' = [pc EXCEPT ![i] = "idle"]
    /\ call' = [call EXCEPT ![i] = Nil]
    /\ sent' = [sent EXCEPT ![i] = Nil]
    /\ netCalls' = [netCalls EXCEPT ![i] = 0]
    /\ response' = [response EXCEPT ![i] = Nil]
    /\ bodyRead' = [bodyRead EXCEPT ![i] = "none"]
    /\ reqOut' = [reqOut EXCEPT ![i] = Nil]
    /\ outcome' = [outcome EXCEPT ![i] = Nil]
    /\ envelope' = [envelope EXCEPT ![i] = Nil]
    /\ adapterCalls' = [adapterCalls EXCEPT ![i] = <<>>]
    /\ UNCHANGED <<tenant, client>>

AllStatuses == {200, 201, 204, 304, 400, 401, 403, 404, 429, 500}

\* one adapter, every operation, every response
Next ==
    \/ CreateClient(1, AllCredentials)
    \/ Invoke(1, AdapterOps)
    \/ Respond(1, AllStatuses)
    \/ FetchFails(1)
    \/ Return(1)

Spec == Init /\ [][Next]_vars

\* the same, with every outstanding fetch settling: it resolves or rejects
SpecLive == Spec /\ WF_vars(Respond(1, AllStatuses) \/ FetchFails(1))

\* several tenants served at the same time, interleaved at their fetches
TenantOps == {"getCurrentUser", "deleteVideo"}
TenantStatuses == {200, 204, 401}

NextTenants ==
    \E i \in Inst :
        \/ CreateClient(i, TenantCredentials)
        \/ Invoke(i, TenantOps)
        \/ Respond(i, TenantStatuses)
        \/ FetchFails(i)
        \/ Return(i)

SpecTenants == Init /\ [][NextTenants]_vars

(***************************************************************************)
(* The credential functions of types/env.ts taken by themselves: the       *)
(* headers of an inbound request are parsed, and credentials (parsed or    *)
(* handed over directly) are validated.                                    *)
(***************************************************************************)
\* parseTenantCredentials(request)
ParseHeaders(i) ==
    /\ pc[i] = "new"
    /\ \E headers \in InboundHeaders :
        /\ call' = [call EXCEPT ![i] = [op |-> "parseTenantCredentials", args |-> headers]]
        /\ tenant' = [tenant EXCEPT ![i] = parseTenantCredentials(headers)]
    /\ pc' = [pc EXCEPT ![i] = "parsed"]
    /\ UNCHANGED <<client, sent, netCalls, response, bodyRead, reqOut, outcome, envelope,
                   adapterCalls>>

\* validateCredentials(credentials)
Validate(i) ==
    /\ pc[i] \in {"new", "parsed"}
    /\ \E credentials \in (IF pc[i] = "parsed" THEN {tenant[i]} ELSE AllCredentials) :
        /\ tenant' = [tenant EXCEPT ![i] = credentials]
        /\ call' = [call EXCEPT ![i] = [op |-> "validateCredentials", args |-> credentials]]
        /\ outcome' = [outcome EXCEPT ![i] = validateCredentials(credentials)]
    /\ pc' = [pc EXCEPT ![i] = "validated"]
    /\ UNCHANGED <<client, sent, netCalls, response, bodyRead, reqOut, envelope,
                   adapterCalls>>

NextCredentials == \E i \in Inst : ParseHeaders(i) \/ Validate(i)

SpecCredentials == Init /\ [][NextCredentials]_vars

(***************************************************************************)
(* The configuration getters of types/env.ts taken by themselves, applied  *)
(* to an environment.                                                      *)
(***************************************************************************)
\* what a variable of the environment may hold; a binding of the wrong type
\* stands for the non-string case
EnvValues ==
    {Str(""), Str("abc"), Str("25"), Str("25px"), Str(" 42"), Str("-5"), Str("12.5"),
     Str("0"), Num(7)}
EnvOf(key) == {<<>>} \cup {key :> v : v \in EnvValues}
Envs ==
    {c @@ d @@ m : c \in EnvOf("CHARACTER_LIMIT"), d \in EnvOf("DEFAULT_PAGE_SIZE"),
                   m \in EnvOf("MAX_PAGE_SIZE")}

ConfigDone(i, getter, env, value) ==
    /\ pc[i] = "new"
    /\ call' = [call EXCEPT ![i] = [op |-> getter, args |-> env]]
    /\ outcome' = [outcome EXCEPT ![i] = Returned(value)]
    /\ pc' = [pc EXCEPT ![i] = "configured"]
    /\ UNCHANGED <<tenant, client, sent, netCalls, response, bodyRead, reqOut, envelope,
                   adapterCalls>>

GetCharacterLimit(i) ==
    \E env \in Envs : ConfigDone(i, "getCharacterLimit", env, getCharacterLimit(env))
GetDefaultPageSize(i) ==
    \E env \in Envs : ConfigDone(i, "getDefaultPageSize", env, getDefaultPageSize(env))
GetMaxPageSize(i) ==
    \E env \in Envs : ConfigDone(i, "getMaxPageSize", env, getMaxPageSize(env))

NextConfig == GetCharacterLimit(1) \/ GetDefaultPageSize(1) \/ GetMaxPageSize(1)

SpecConfig == Init /\ [][NextConfig]_vars

(***************************************************************************)
(* Properties.                                                             *)
(***************************************************************************)
NoToken(i) == client[i] # Nil /\ ~Truthy(client[i].credentials.accessToken)
Answered(i) == pc[i] = "done" /\ response[i] # Nil
NoCredentialsMessage == Str("No credentials provided. Include X-Loom-Access-Token header.")

\* C1 as stated: with an empty or absent token every adapter operation fails
\* with an Authentication failure and makes no network call.
C1_Original ==
    \A i \in Inst :
        (pc[i] = "done" /\ NoToken(i)) =>
            /\ outcome[i].threw
            /\ outcome[i].error.name = "AuthenticationError"
            /\ netCalls[i] = 0

\* C1, amended: with an empty or absent token no request is ever sent; every
\* operation but testConnection fails with the Authentication failure of the
\* credential check, and testConnection returns connected = false with that
\* failure's message.
C1_NoTokenNoRequest ==
    \A i \in Inst :
        NoToken(i) =>
            /\ netCalls[i] = 0
            /\ sent[i] = Nil
            /\ pc[i] # "awaiting"
            /\ pc[i] = "done" =>
                /\ reqOut[i] = Thrown(AuthenticationError(NoCredentialsMessage))
                /\ IF call[i].op = "testConnection"
                    THEN outcome[i] = Returned(Obj([connected |-> Bool(FALSE),
                                                    message |-> NoCredentialsMessage]))
                    ELSE outcome[i] = reqOut[i]

\* an operation was invoked on a client bound to the empty token, and failed
C1_Witness ==
    /\ pc[1] = "done"
    /\ client[1].credentials.accessToken = Str("")
    /\ call[1].op = "listVideos"
    /\ outcome[1].threw

\* C2 as stated: a 429 response yields a RateLimit failure whose retry-after
\* value is the number of seconds parsed from the Retry-After header whenever
\* the header is present, and 60 when it is absent.  (A header with an empty
\* value is counted as absent here, the reading most favourable to the claim.)
C2_Original ==
    \A i \in Inst :
        (Answered(i) /\ response[i].status = 429) =>
            /\ reqOut[i].threw
            /\ reqOut[i].error.name = "RateLimitError"
            /\ IF /\ "Retry-After" \in DOMAIN response[i].headers
                  /\ response[i].headers["Retry-After"] # ""
                THEN /\ reqOut[i].error.retryAfter.t = "number"
                     /\ reqOut[i].error.retryAfter = parseInt(response[i].headers["Retry-After"])
                ELSE reqOut[i].error.retryAfter = Num(60)

\* C3 as stated: a 204 response to a mutating operation gives an empty
\* result and a success envelope, never a failure envelope.
C3_Original ==
    \A i \in Inst :
        (Answered(i) /\ response[i].status = 204 /\ call[i].op \in MutatingOps) =>
            /\ outcome[i] = Returned(undefined)
            /\ "content" \in DOMAIN envelope[i]
            /\ "isError" \notin DOMAIN envelope[i]

\* C4: a 404 response yields the NotFound failure with the fixed message
\* 'Resource not found', status 404 and code 'NOT_FOUND', whatever the body
\* holds; the body is not read.
C4_NotFound ==
    \A i \in Inst :
        (Answered(i) /\ response[i].status = 404) =>
            /\ reqOut[i] = Thrown([name |-> "LoomApiError",
                                   message |-> Str("Resource not found"),
                                   status |-> 404, code |-> Str("NOT_FOUND")])
            /\ bodyRead[i] = "none"
            /\ call[i].op # "testConnection" => outcome[i] = reqOut[i]

\* a 404 whose body carries a message of its own was answered to an operation
C4_Witness ==
    /\ Answered(1)
    /\ response[1].status = 404
    /\ response[1].body = JsonText(Obj([message |-> Str("quota exceeded")]))
    /\ call[1].op = "getVideo"

\* C5: a 401 or 403 response yields the Authentication failure with the one
\* fixed message, whatever the body holds and whichever operation asked.
C5_AuthFailure ==
    \A i \in Inst :
        (Answered(i) /\ response[i].status \in {401, 403}) =>
            /\ reqOut[i] = Thrown([name |-> "AuthenticationError",
                                   message |-> Str("Authentication failed. Check your Loom access token.")])
            /\ bodyRead[i] = "none"
            /\ call[i].op # "testConnection" => outcome[i] = reqOut[i]

\* a 403 whose body carries a message of its own was answered to an operation
C5_Witness ==
    /\ Answered(1)
    /\ response[1].status = 403
    /\ response[1].body = JsonText(Obj([message |-> Str("quota exceeded")]))
    /\ call[1].op = "createRecordLink"

OtherFailureStatus(status) ==
    ~(status >= 200 /\ status <= 299) /\ status \notin {429, 401, 403, 404}
\* the field k of a body that parses to a JSON object holding it
BodyField(body, k) ==
    IF body.json /\ body.value.t = "object" /\ k \in DOMAIN body.value.f
        THEN body.value.f[k] ELSE undefined
HasBodyField(body, k) == body.json /\ body.value.t = "object" /\ k \in DOMAIN body.value.f
NonEmpty(v) == v \notin {undefined, null, Str(""), Num(0), Bool(FALSE)}
ApiError(message, status) ==
    Thrown([name |-> "LoomApiError", message |-> message, status |-> status,
            code |-> undefined])

\* C6 as stated: any other non-2xx status yields a generic API failure with
\* the status code, whose message is the body's message field if the body
\* parses as JSON and has one, else its error field if it has one, else
\* 'API error: <status>'.  (The failure is taken where request() raises it,
\* and as the operation's own for every operation that propagates it.)
C6_Original ==
    \A i \in Inst :
        (Answered(i) /\ OtherFailureStatus(response[i].status)) =>
            LET body == response[i].body
                status == response[i].status
                expected ==
                    IF HasBodyField(body, "message") THEN BodyField(body, "message")
                    ELSE IF HasBodyField(body, "error") THEN BodyField(body, "error")
                    ELSE Str("API error: " \o ToString(status))
            IN  /\ reqOut[i] = ApiError(expected, status)
                /\ call[i].op # "testConnection" => outcome[i] = reqOut[i]

\* C6, amended: the message is the body's message field if the body parses
\* as JSON and that field is non-empty, else its error field if that is
\* non-empty, else 'API error: <status>'.
C6_ApiFailure ==
    \A i \in Inst :
        (Answered(i) /\ OtherFailureStatus(response[i].status)) =>
            LET body == response[i].body
                status == response[i].status
                expected ==
                    IF NonEmpty(BodyField(body, "message")) THEN BodyField(body, "message")
                    ELSE IF NonEmpty(BodyField(body, "error")) THEN BodyField(body, "error")
                    ELSE Str("API error: " \o ToString(status))
            IN  /\ reqOut[i] = ApiError(expected, status)
                /\ bodyRead[i] = "text"
                /\ call[i].op # "testConnection" => outcome[i] = reqOut[i]

\* a 500 whose body has an empty message and an error field was answered
C6_Witness ==
    /\ Answered(1)
    /\ response[1].status = 500
    /\ response[1].body = JsonText(Obj([message |-> Str(""), error |-> Str("bad_request")]))
    /\ call[1].op = "updateFolder"
    /\ outcome[1] = ApiError(Str("bad_request"), 500)

\* C7: a completed tool invocation has returned exactly one envelope: the
\* failure envelope 'Error: <message>' with the error marker when the adapter
\* call threw anything, else a success envelope without the marker; nothing
\* is returned before completion.
C7_EnvelopeAlways ==
    \A i \in Inst :
        /\ pc[i] # "done" => envelope[i] = Nil
        /\ (pc[i] = "done" /\ call[i].op \in ToolOps) =>
            LET env == envelope[i]
            IN  /\ "content" \in DOMAIN env
                /\ Len(env.content) = 1
                /\ env.content[1].type = "text"
                /\ IF outcome[i].threw
                    THEN /\ DOMAIN env = {"content", "isError"}
                         /\ env.isError = TRUE
                         /\ env.content[1].text
                                = RawText("Error: " \o ToStr(outcome[i].error.message))
                    ELSE /\ DOMAIN env = {"content"}
                         /\ env.content[1].text.json

\* a tool got a 200 whose body is not JSON: the parse error became an envelope
C7_Witness ==
    /\ Answered(1)
    /\ response[1].status = 200
    /\ ~response[1].body.json
    /\ call[1].op = "getVideoAnalytics"
    /\ outcome[1].threw
    /\ outcome[1].error.name = "SyntaxError"
    /\ envelope[1].isError = TRUE

\* C8: a listing that returns has hasMore true exactly when its nextCursor is
\* a non-empty string, whatever the number of items.
C8_HasMoreIffCursor ==
    \A i \in Inst :
        (pc[i] = "done" /\ call[i].op \in ListOps /\ ~outcome[i].threw) =>
            LET page == outcome[i].value.f
            IN  /\ page.hasMore.t = "boolean"
                /\ page.hasMore.b <=> (page.nextCursor.t = "string" /\ page.nextCursor.s # "")
                /\ page.nextCursor = BodyField(response[i].body, "next_cursor")

\* a search returned no item and a cursor: hasMore is true
C8_Witness ==
    /\ pc[1] = "done"
    /\ call[1].op = "searchVideos"
    /\ ~outcome[1].threw
    /\ outcome[1].value.f.items = Arr(<<>>)
    /\ outcome[1].value.f.hasMore = Bool(TRUE)

\* C9: an invocation calls fetch at most once: exactly once when a token is
\* bound, whatever the response, and never without one.
C9_SingleRequest ==
    \A i \in Inst :
        /\ netCalls[i] <= 1
        /\ pc[i] = "awaiting" => netCalls[i] = 1
        /\ pc[i] = "done" => netCalls[i] = (IF NoToken(i) THEN 0 ELSE 1)

\* getEmbedHtml was answered 429 and completed after its one request
C9_Witness ==
    /\ Answered(1)
    /\ response[1].status = 429
    /\ call[1].op = "getEmbedHtml"
    /\ outcome[1].threw
    /\ netCalls[1] = 1

\* the token and base URL the tenant of instance i supplied
OwnToken(i) ==
    IF tenant[i].accessToken.t = "string" /\ tenant[i].accessToken.s # ""
        THEN tenant[i].accessToken.s ELSE ""
OwnBase(i) ==
    IF tenant[i].baseUrl.t = "string" /\ tenant[i].baseUrl.s # ""
        THEN tenant[i].baseUrl.s ELSE "https://api.loom.com/v1"
\* the completion of i's request as its own credentials and response give it
OwnRequest(i) ==
    IF OwnToken(i) = "" THEN Thrown(AuthenticationError(NoCredentialsMessage))
    ELSE IF response[i] = Nil THEN Thrown(TypeError("fetch failed"))
    ELSE requestReceive(response[i]).out

\* C10: under every interleaving, each request carries the token and base
\* URL of the tenant whose instance issued it, and each result is the one
\* its own credentials, arguments and response give.
C10_TenantIsolation ==
    \A i \in Inst :
        /\ sent[i] # Nil =>
            /\ OwnToken(i) # ""
            /\ sent[i].headers["Authorization"] = "Bearer " \o OwnToken(i)
            /\ sent[i].url = OwnBase(i) \o RequestOf(call[i].op, call[i].args).endpoint
        /\ pc[i] = "done" =>
            /\ outcome[i] = OpOutcome(call[i].op, call[i].args, OwnRequest(i))
            /\ envelope[i] = ToolHandler(call[i].op, call[i].args, outcome[i])

\* two tenants have requests outstanding at the same time
C10_Witness ==
    /\ pc[1] = "awaiting"
    /\ pc[2] = "awaiting"
    /\ sent[1].headers["Authorization"] = "Bearer tokA"
    /\ sent[1].url = "https://api.loom.com/v1/me"
    /\ sent[2].headers["Authorization"] = "Bearer tokB"
    /\ sent[2].url = "https://eu.loom.test/v1/videos/abc123"

\* the user lookup of a completed testConnection got a user record
UserFound(i) ==
    /\ response[i] # Nil
    /\ response[i].status \in {200, 201}
    /\ response[i].body.json
    /\ response[i].body.value.t = "object"

\* C11: testConnection never fails: it returns connected = true with
\* 'Connected as <user name>' when the user lookup gave a user, and
\* connected = false with the failure's message when the lookup failed for
\* any reason (no token, 429, 401/403, 404, other status, transport error,
\* unusable body).
C11_TestConnection ==
    \A i \in Inst :
        (pc[i] = "done" /\ call[i].op = "testConnection") =>
            /\ ~outcome[i].threw
            /\ DOMAIN outcome[i].value.f = {"connected", "message"}
            /\ IF UserFound(i)
                THEN /\ ~reqOut[i].threw
                     /\ outcome[i].value.f.connected = Bool(TRUE)
                     /\ outcome[i].value.f.message
                            = Str("Connected as "
                                    \o ToStr(BodyField(response[i].body, "name")))
                ELSE /\ outcome[i].value.f.connected = Bool(FALSE)
                     /\ outcome[i].value.f.message.t = "string"
                     /\ reqOut[i].threw =>
                            outcome[i].value.f.message = reqOut[i].error.message

\* testConnection was answered 429 and returned connected = false
C11_Witness ==
    /\ Answered(1)
    /\ call[1].op = "testConnection"
    /\ response[1].status = 429
    /\ outcome[1] = Returned(Obj([connected |-> Bool(FALSE),
                                  message |-> Str("Rate limit exceeded")]))

\* C12: every operation other than testConnection propagates the failure of
\* its request unchanged, and testConnection never does.
C12_OnlyTestConnectionDowngrades ==
    \A i \in Inst :
        (pc[i] = "done" /\ reqOut[i].threw) =>
            IF call[i].op = "testConnection"
                THEN ~outcome[i].threw
                ELSE outcome[i] = reqOut[i]

\* deleteVideo was answered 500 and failed with the API failure
C12_Witness ==
    /\ Answered(1)
    /\ call[1].op = "deleteVideo"
    /\ response[1].status = 500
    /\ outcome[1].threw
    /\ outcome[1].error.name = "LoomApiError"

\* <iframe ...> with the given src, width and height
Iframe(src, width, height) ==
    Str("<iframe src=\"" \o src \o "\" width=\"" \o width \o "\" height=\"" \o height
        \o "\" frameborder=\"0\" webkitallowfullscreen mozallowfullscreen allowfullscreen></iframe>")

\* the src getEmbedHtml is to give: the video's own embed URL if it has a
\* non-empty one, else the constructed one, then the autoplay suffix
EmbedSrc(i) ==
    LET own == BodyField(response[i].body, "embed_url")
    IN  (IF NonEmpty(own) THEN own.s
         ELSE "https://www.loom.com/embed/" \o call[i].args.videoId.s)
        \o (IF call[i].args.autoplay = Bool(TRUE) THEN "?autoplay=1" ELSE "")

\* C13 as stated: getEmbedHtml returns an iframe whose src is the video's
\* own embed URL when it has one, else 'https://www.loom.com/embed/<videoId>',
\* followed by '?autoplay=1' iff autoplay is true, whose width is the given
\* width when one is given and 640 otherwise, and whose height is the given
\* height when one is given and 360 otherwise.
C13_Original ==
    \A i \in Inst :
        (pc[i] = "done" /\ call[i].op = "getEmbedHtml" /\ ~outcome[i].threw) =>
            LET a == call[i].args
            IN  outcome[i].value
                    = Obj([html |-> Iframe(EmbedSrc(i),
                            IF a.width # undefined THEN ToString(a.width.n) ELSE "640",
                            IF a.height # undefined THEN ToString(a.height.n) ELSE "360")])

\* the texts of the first n wire segments, each followed by one space but the
\* last
RECURSIVE TextsUpTo(_, _)
TextsUpTo(segments, n) ==
    IF n = 0 THEN ""
    ELSE LET text == IF "text" \in DOMAIN segments[n].f THEN segments[n].f.text.s ELSE ""
         IN  IF n = 1 THEN text ELSE TextsUpTo(segments, n - 1) \o " " \o text

\* C14: getTranscript returns the segments in wire order and a fullText that
\* is the segment texts joined by one space in that order, whatever else the
\* response carries.
C14_TranscriptJoin ==
    \A i \in Inst :
        (pc[i] = "done" /\ call[i].op = "getTranscript" /\ ~outcome[i].threw) =>
            LET wire == response[i].body.value.f.transcript.a
                result == outcome[i].value.f
            IN  /\ DOMAIN result = {"transcript", "fullText"}
                /\ Len(result.transcript.a) = Len(wire)
                /\ \A k \in 1..Len(wire) :
                    LET segment == result.transcript.a[k].f
                    IN  /\ segment.startTime = Get(wire[k], "start_time")
                        /\ segment.endTime = Get(wire[k], "end_time")
                        /\ segment.text = Get(wire[k], "text")
                /\ result.fullText = Str(TextsUpTo(wire, Len(wire)))

\* the segments 'Hello', 'world' gave 'Hello world' though the response
\* carried another text
C14_Witness ==
    /\ Answered(1)
    /\ call[1].op = "getTranscript"
    /\ response[1].body = JsonText(HelloWorld)
    /\ ~outcome[1].threw
    /\ outcome[1].value.f.fullText = Str("Hello world")

\* C15: every request handed to fetch carries exactly 'Authorization: Bearer
\* <token>', with the token the client was constructed with, and
\* 'Content-Type: application/json'.
C15_RequestHeaders ==
    \A i \in Inst :
        sent[i] # Nil =>
            /\ client[i].credentials = tenant[i]
            /\ tenant[i].accessToken.t = "string"
            /\ tenant[i].accessToken.s # ""
            /\ DOMAIN sent[i].headers = {"Authorization", "Content-Type"}
            /\ sent[i].headers["Authorization"] = "Bearer " \o tenant[i].accessToken.s
            /\ sent[i].headers["Content-Type"] = "application/json"

\* a request without a body is outstanding for a client constructed with tokB
C15_Witness ==
    /\ pc[1] = "awaiting"
    /\ call[1].op = "getWorkspace"
    /\ tenant[1].accessToken = Str("tokB")
    /\ sent[1].body = undefined
    /\ sent[1].headers["Authorization"] = "Bearer tokB"

\* C16: the URL of every request is the base URL followed by the operation's
\* endpoint, the base URL being the tenant's override when it is a non-empty
\* string and 'https://api.loom.com/v1' otherwise.
C16_BaseUrl ==
    \A i \in Inst :
        LET base == IF tenant[i].baseUrl.t = "string" /\ tenant[i].baseUrl.s # ""
                        THEN tenant[i].baseUrl.s ELSE "https://api.loom.com/v1"
        IN  /\ client[i] # Nil => client[i].baseUrl = Str(base)
            /\ sent[i] # Nil =>
                sent[i].url = base \o RequestOf(call[i].op, call[i].args).endpoint

\* a request is outstanding under a tenant's override
C16_Witness ==
    /\ pc[1] = "awaiting"
    /\ call[1].op = "getFolder"
    /\ tenant[1].baseUrl = Str("https://eu.loom.test/v1")
    /\ sent[1].url = "https://eu.loom.test/v1/folders/f1"

\* C17 as stated: validating credentials fails with an Authentication error
\* when the access token is absent or empty, succeeds otherwise, and makes no
\* network call in either case.
C17_Original ==
    \A i \in Inst :
        pc[i] = "validated" =>
            /\ IF tenant[i].accessToken.t = "string" /\ tenant[i].accessToken.s # ""
                THEN outcome[i] = Returned(undefined)
                ELSE /\ outcome[i].threw
                     /\ outcome[i].error.name = "AuthenticationError"
            /\ netCalls[i] = 0
            /\ sent[i] = Nil

\* a parameter counts as provided when it is a number or a non-empty string
Provided(v) == v # undefined /\ v # Str("")
\* the query pair of parameter v under the wire name k, when v is provided
PairIf(v, k) == IF Provided(v) THEN <<(<<k, ToStr(v)>>)>> ELSE <<>>
\* path followed by the query made of pairs, if any
WithQuery(path, pairs) ==
    IF pairs = <<>> THEN path ELSE path \o "?" \o QueryString(pairs)
\* the path of a listing operation or of getOEmbed
QueryPath(op, a) ==
    CASE op = "listVideos" -> "/videos"
      [] op = "listFolders" -> "/folders"
      [] op = "listSpaces" -> "/spaces"
      [] op = "listSpaceVideos" -> "/spaces/" \o a.spaceId.s \o "/videos"
      [] op = "searchVideos" -> "/videos/search"
      [] op = "getOEmbed" -> "/oembed"

\* C18 as stated: a listing sends per_page and next_cursor exactly when
\* perPage and nextCursor are provided; searchVideos also always sends q;
\* getOEmbed always sends url and sends maxwidth / maxheight exactly when
\* maxWidth / maxHeight are provided.  (An empty string counts as not
\* provided, the reading most favourable to the claim.)
C18_Original ==
    \A i \in Inst :
        (sent[i] # Nil /\ call[i].op \in ListOps \cup {"getOEmbed"}) =>
            LET op == call[i].op
                a == call[i].args
                pairs ==
                    IF op = "getOEmbed"
                        THEN <<(<<"url", a.url.s>>)>> \o PairIf(a.maxWidth, "maxwidth")
                                \o PairIf(a.maxHeight, "maxheight")
                        ELSE (IF op = "searchVideos" THEN <<(<<"q", a.query.s>>)>> ELSE <<>>)
                                \o PairIf(a.perPage, "per_page")
                                \o PairIf(a.nextCursor, "next_cursor")
            IN  sent[i].url = client[i].baseUrl.s \o WithQuery(QueryPath(op, a), pairs)

\* the operations that return entities, and the field table of the entity
EntityOps ==
    (ToolOps \ {"updateVideo", "deleteVideo", "deleteFolder", "addVideoToSpace",
                "removeVideoFromSpace", "moveVideoToFolder", "getEmbedHtml"})
EntityTable(op) ==
    CASE op = "getCurrentUser" -> UserFields
      [] op \in {"getVideo", "listVideos", "listSpaceVideos", "searchVideos",
                 "duplicateVideo"} -> VideoFields
      [] op = "getTranscript" -> SegmentFields
      [] op = "getVideoAnalytics" -> AnalyticsFields
      [] op \in {"listComments", "createComment"} -> CommentFields
      [] op \in {"listFolders", "createFolder", "getFolder", "updateFolder"} -> FolderFields
      [] op \in {"listWorkspaces", "getWorkspace"} -> WorkspaceFields
      [] op \in {"listSpaces", "getSpace"} -> SpaceFields
      [] op = "getOEmbed" -> OEmbedFields
      [] op = "createRecordLink" -> RecordLinkFields
\* the key of the response under which a listing's records come
WireKey(op) ==
    CASE op \in {"listVideos", "listSpaceVideos", "searchVideos"} -> "videos"
      [] op = "getTranscript" -> "transcript"
      [] op = "listComments" -> "comments"
      [] op = "listFolders" -> "folders"
      [] op = "listWorkspaces" -> "workspaces"
      [] op = "listSpaces" -> "spaces"
      [] OTHER -> ""
\* the wire records of instance i's response and the records of its result
WireRecords(i) ==
    LET body == response[i].body.value
    IN  IF WireKey(call[i].op) = "" THEN <<body>> ELSE body.f[WireKey(call[i].op)].a
ResultRecords(i) ==
    LET op == call[i].op
        value == outcome[i].value
    IN  IF op \in ListOps THEN value.f.items.a
        ELSE IF op = "getTranscript" THEN value.f.transcript.a
        ELSE IF WireKey(op) # "" THEN value.a
        ELSE <<value>>

\* C19 as stated: for every operation that returns entities, each wire field
\* of the entity that is present in a record of the response appears with the
\* same value under its camelCase name in the corresponding record of the
\* result.
C19_Original ==
    \A i \in Inst :
        (pc[i] = "done" /\ call[i].op \in EntityOps /\ ~outcome[i].threw) =>
            LET F == EntityTable(call[i].op)
                wire == WireRecords(i)
                result == ResultRecords(i)
            IN  /\ Len(result) = Len(wire)
                /\ \A k \in 1..Len(wire) : \A c \in DOMAIN F :
                    F[c] \in DOMAIN wire[k].f =>
                        /\ c \in DOMAIN result[k].f
                        /\ result[k].f[c] = wire[k].f[F[c]]

\* the body field k |-> v, when v is provided
FieldIf(v, k) == IF Provided(v) THEN (k :> v) ELSE <<>>

\* C20 as stated: the body createFolder sends holds name, and parent_id
\* exactly when parentId is provided; the body createRecordLink sends holds
\* title, folder_id and expires_in_minutes exactly when each is provided; a
\* field that is not provided is not in the body at all.  (An empty string
\* counts as not provided, the reading most favourable to the claim.)
C20_Original ==
    \A i \in Inst :
        LET a == call[i].args
        IN  /\ (sent[i] # Nil /\ call[i].op = "createFolder") =>
                sent[i].body = JsonText(Obj(("name" :> a.name)
                                            @@ FieldIf(a.parentId, "parent_id")))
            /\ (sent[i] # Nil /\ call[i].op = "createRecordLink") =>
                sent[i].body = JsonText(Obj(FieldIf(a.title, "title")
                                            @@ FieldIf(a.folderId, "folder_id")
                                            @@ FieldIf(a.expiresInMinutes,
                                                       "expires_in_minutes")))

\* C21: moveVideoToFolder sends one PATCH to /videos/<videoId> whose JSON
\* body holds folder_id, set to the given folder id, and nothing else.
C21_MoveVideoToFolder ==
    \A i \in Inst :
        (call[i] # Nil /\ call[i].op = "moveVideoToFolder" /\ sent[i] # Nil) =>
            /\ netCalls[i] = 1
            /\ sent[i].method = "PATCH"
            /\ sent[i].url = client[i].baseUrl.s \o "/videos/" \o call[i].args.videoId.s
            /\ sent[i].body.json
            /\ sent[i].body.value = Obj([folder_id |-> call[i].args.folderId])

\* a move to folder f1 completed after its one request
C21_Witness ==
    /\ Answered(1)
    /\ call[1].op = "moveVideoToFolder"
    /\ call[1].args.folderId = Str("f1")
    /\ sent[1].method = "PATCH"
    /\ ~outcome[1].threw

\* the operations that return videos, and the declared enumerations
VideoOps == {"getVideo", "listVideos", "listSpaceVideos", "searchVideos", "duplicateVideo"}
DeclaredStatus == {"pending", "processing", "ready", "failed"}
DeclaredPrivacy == {"public", "private", "company", "password"}
\* the response of instance i carries video records
VideosAnswered(i) ==
    /\ Answered(i)
    /\ call[i].op \in VideoOps
    /\ response[i].status = 200
    /\ response[i].body.json
    /\ response[i].body.value.t = "object"
    /\ WireKey(call[i].op) # "" => WireKey(call[i].op) \in DOMAIN response[i].body.value.f

\* C22 as stated: for every operation returning videos, a wire status or
\* privacy outside the declared enumerations is returned unchanged, and
\* causes neither a failure nor the substitution of a default.
C22_Original ==
    \A i \in Inst :
        VideosAnswered(i) =>
            /\ ~outcome[i].threw
            /\ Len(ResultRecords(i)) = Len(WireRecords(i))
            /\ \A k \in 1..Len(WireRecords(i)) :
                LET wire == WireRecords(i)[k].f
                    result == ResultRecords(i)[k].f
                IN  /\ ("status" \in DOMAIN wire /\ wire.status.s \notin DeclaredStatus) =>
                        ("status" \in DOMAIN result /\ result.status = wire.status)
                    /\ ("privacy" \in DOMAIN wire /\ wire.privacy.s \notin DeclaredPrivacy) =>
                        ("privacy" \in DOMAIN result /\ result.privacy = wire.privacy)

\* the upper-case form of a lower-case letter
UpperOf(c) ==
    LET k == CHOOSE j \in 1..26 : CharAt("abcdefghijklmnopqrstuvwxyz", j) = c
    IN  CharAt("ABCDEFGHIJKLMNOPQRSTUVWXYZ", k)
\* snake_case to camelCase, from position i of s on
RECURSIVE CamelFrom(_, _)
CamelFrom(s, i) ==
    IF i > Len(s) THEN ""
    ELSE IF CharAt(s, i) = "_" /\ i < Len(s)
        THEN UpperOf(CharAt(s, i + 1)) \o CamelFrom(s, i + 2)
    ELSE CharAt(s, i) \o CamelFrom(s, i + 1)
\* the adapter operation a tool is named after: loom_list_videos is named
\* after listVideos (oEmbed is spelt getOEmbed in the adapter)
OpNamed(tool) ==
    IF tool = "loom_get_oembed" THEN "getOEmbed" ELSE CamelFrom(tool, 6)

\* C23: there are 27 tools, and the handler of an invoked tool has called
\* exactly one adapter operation, the one the tool is named after, with the
\* arguments the tool received, whether the call is outstanding, succeeded
\* or failed; nothing is called outside an invocation.
C23_OneAdapterCall ==
    /\ Cardinality(DOMAIN Handlers) = 27
    /\ \A i \in Inst :
        IF pc[i] \in {"awaiting", "done"}
            THEN /\ Len(adapterCalls[i]) = 1
                 /\ adapterCalls[i][1].args = call[i].args
                 /\ call[i].tool # "" => adapterCalls[i][1].op = OpNamed(call[i].tool)
            ELSE adapterCalls[i] = <<>>

\* the handler of loom_get_oembed completed with a failure after its one call
C23_Witness ==
    /\ pc[1] = "done"
    /\ call[1].tool = "loom_get_oembed"
    /\ outcome[1].threw
    /\ adapterCalls[1] = <<[op |-> "getOEmbed", args |-> call[1].args]>>
    /\ envelope[1].isError = TRUE

\* the fixed message of each mutating tool
FixedMessage(op, a) ==
    CASE op = "updateVideo" -> "Video updated"
      [] op = "deleteVideo" -> "Video " \o a.videoId.s \o " deleted"
      [] op = "moveVideoToFolder" -> "Video moved to folder " \o a.folderId.s
      [] op = "duplicateVideo" -> "Video duplicated"
      [] op = "createComment" -> "Comment created"
      [] op = "createFolder" -> "Folder created"
      [] op = "updateFolder" -> "Folder updated"
      [] op = "deleteFolder" -> "Folder " \o a.folderId.s \o " deleted"
      [] op = "addVideoToSpace" ->
            "Video " \o a.videoId.s \o " added to space " \o a.spaceId.s
      [] op = "removeVideoFromSpace" ->
            "Video " \o a.videoId.s \o " removed from space " \o a.spaceId.s
      [] op = "createRecordLink" -> "Record link created"

\* C24 as stated: when the adapter call of a mutating tool succeeds, the
\* JSON object of its success envelope has success = true and the tool's
\* fixed message, whatever the response held.
C24_Original ==
    \A i \in Inst :
        (pc[i] = "done" /\ call[i].op \in MutatingOps /\ ~outcome[i].threw) =>
            LET text == envelope[i].content[1].text
            IN  /\ "isError" \notin DOMAIN envelope[i]
                /\ text.json
                /\ text.value.t = "object"
                /\ text.value.f.success = Bool(TRUE)
                /\ text.value.f.message = Str(FixedMessage(call[i].op, call[i].args))

\* the endpoint table: method and path of each operation
EndpointTable(op, a) ==
    CASE op \in {"getCurrentUser", "testConnection"} -> <<"GET", "/me">>
      [] op = "listVideos" -> <<"GET", "/videos">>
      [] op \in {"getVideo", "getEmbedHtml"} -> <<"GET", "/videos/" \o a.videoId.s>>
      [] op \in {"updateVideo", "moveVideoToFolder"} ->
            <<"PATCH", "/videos/" \o a.videoId.s>>
      [] op = "deleteVideo" -> <<"DELETE", "/videos/" \o a.videoId.s>>
      [] op = "searchVideos" -> <<"GET", "/videos/search">>
      [] op = "getTranscript" -> <<"GET", "/videos/" \o a.videoId.s \o "/transcript">>
      [] op = "getVideoAnalytics" -> <<"GET", "/videos/" \o a.videoId.s \o "/analytics">>
      [] op = "listComments" -> <<"GET", "/videos/" \o a.videoId.s \o "/comments">>
      [] op = "createComment" -> <<"POST", "/videos/" \o a.videoId.s \o "/comments">>
      [] op = "listFolders" -> <<"GET", "/folders">>
      [] op = "createFolder" -> <<"POST", "/folders">>
      [] op = "getFolder" -> <<"GET", "/folders/" \o a.folderId.s>>
      [] op = "updateFolder" -> <<"PATCH", "/folders/" \o a.folderId.s>>
      [] op = "deleteFolder" -> <<"DELETE", "/folders/" \o a.folderId.s>>
      [] op = "listWorkspaces" -> <<"GET", "/workspaces">>
      [] op = "getWorkspace" -> <<"GET", "/workspaces/" \o a.workspaceId.s>>
      [] op = "listSpaces" -> <<"GET", "/spaces">>
      [] op = "getSpace" -> <<"GET", "/spaces/" \o a.spaceId.s>>
      [] op = "listSpaceVideos" -> <<"GET", "/spaces/" \o a.spaceId.s \o "/videos">>
      [] op = "addVideoToSpace" -> <<"POST", "/spaces/" \o a.spaceId.s \o "/videos">>
      [] op = "removeVideoFromSpace" ->
            <<"DELETE", "/spaces/" \o a.spaceId.s \o "/videos/" \o a.videoId.s>>
      [] op = "getOEmbed" -> <<"GET", "/oembed">>
      [] op = "createRecordLink" -> <<"POST", "/record-links">>
      [] op = "duplicateVideo" -> <<"POST", "/videos/" \o a.videoId.s \o "/duplicate">>

\* url is the base followed by path, alone or followed by a query string
HasPath(url, base, path) ==
    LET full == base \o path
    IN  \/ url = full
        \/ /\ Len(url) > Len(full) + 1
           /\ SubSeq(url, 1, Len(full) + 1) = full \o "?"

\* C25: every request sent carries the method and the path the endpoint
\* table gives for its operation, and its method is GET exactly when the
\* operation gives request() no method.
C25_EndpointTable ==
    \A i \in Inst :
        sent[i] # Nil =>
            LET row == EndpointTable(call[i].op, call[i].args)
            IN  /\ sent[i].method = row[1]
                /\ HasPath(sent[i].url, ToStr(client[i].baseUrl), row[2])
                /\ sent[i].method = "GET"
                    <=> RequestOf(call[i].op, call[i].args).options.method = ""

\* duplicateVideo, which gives a method but no body, went out as POST, and a
\* listing went out as GET with a query string after its path
C25_Witness ==
    /\ sent[1] # Nil
    /\ call[1].op = "searchVideos"
    /\ sent[1].method = "GET"
    /\ sent[1].url # ToStr(client[1].baseUrl) \o "/videos/search"

C25_WitnessPost ==
    /\ sent[1] # Nil
    /\ call[1].op = "duplicateVideo"
    /\ sent[1].method = "POST"
    /\ sent[1].body = undefined

\* the adapter of instance i still holds what it was constructed with
BoundAsConstructed(i) ==
    /\ client[i].credentials = tenant[i]
    /\ client[i].baseUrl = Str(OwnBase(i))

\* C26: no step of an operation (its start, the arrival of its response, a
\* transport failure, its return) changes the adapter's bound token or base
\* URL, so after any sequence of operations the adapter holds what it was
\* constructed with; and the outcome of every invocation is the one its
\* bound credentials, its arguments and its own response give, whatever
\* was invoked before.
C26_Stateless ==
    /\ [](\A i \in Inst :
            /\ client[i] # Nil => BoundAsConstructed(i)
            /\ pc[i] = "done" =>
                outcome[i] = OpOutcome(call[i].op, call[i].args, OwnRequest(i)))
    /\ [][\A i \in Inst :
            (client[i] # Nil /\ (pc[i] = "awaiting" \/ pc'[i] \in {"awaiting", "done"}
                                  \/ (pc[i] = "done" /\ tenant'[i] = tenant[i])))
                => client'[i] = client[i]]_vars

\* an operation failed on a 401 and the adapter still holds its token and
\* base URL
C26_Witness ==
    /\ pc[1] = "done"
    /\ response[1] # Nil
    /\ response[1].status = 401
    /\ outcome[1].threw
    /\ client[1].credentials.accessToken = Str("tokA")
    /\ client[1].baseUrl = Str("https://api.loom.com/v1")

\* the value of header name when it is present and non-empty, else absent
FromHeader(headers, name) ==
    IF name \in DOMAIN headers /\ headers[name] # "" THEN Str(headers[name]) ELSE undefined

\* C27: the credentials the resolver produces have exactly the fields
\* accessToken and baseUrl, each the value of X-Loom-Access-Token and
\* X-Loom-Base-URL when that header is present and non-empty and absent
\* otherwise, whatever other headers the request carries; and the resolving
\* step changes nothing but its result.
C27_Resolver ==
    /\ [](\A i \in Inst :
            (pc[i] = "parsed" /\ call[i].op = "parseTenantCredentials") =>
                /\ DOMAIN tenant[i] = {"accessToken", "baseUrl"}
                /\ tenant[i].accessToken = FromHeader(call[i].args, "X-Loom-Access-Token")
                /\ tenant[i].baseUrl = FromHeader(call[i].args, "X-Loom-Base-URL"))
    /\ [][\A i \in Inst :
            (pc[i] = "new" /\ pc'[i] = "parsed") =>
                /\ call'[i].args \in InboundHeaders
                /\ UNCHANGED <<client, sent, netCalls, response, bodyRead, reqOut,
                               outcome, envelope, adapterCalls>>
                /\ \A j \in Inst \ {i} : tenant'[j] = tenant[j] /\ call'[j] = call[j]]_vars

\* a request carrying an empty token header, a base URL header and an
\* Authorization header resolved to credentials without a token
C27_Witness ==
    /\ pc[1] = "parsed"
    /\ call[1].args = ("X-Loom-Access-Token" :> "")
                        @@ ("X-Loom-Base-URL" :> "https://eu.loom.test/v1")
                        @@ ("Authorization" :> "Bearer tokC")
    /\ tenant[1] = [accessToken |-> undefined, baseUrl |-> Str("https://eu.loom.test/v1")]

\* the variable and the default of each configuration getter
ConfigTable ==
    [getCharacterLimit |-> <<"CHARACTER_LIMIT", 50000>>,
     getDefaultPageSize |-> <<"DEFAULT_PAGE_SIZE", 20>>,
     getMaxPageSize |-> <<"MAX_PAGE_SIZE", 100>>]

AllSpaces(s) == \A k \in 1..Len(s) : SubSeq(s, k, k) = " "
AllDigits(s) == \A k \in 1..Len(s) : \E d \in 0..9 : SubSeq(s, k, k) = ToString(d)
\* the number a run of decimal digits denotes, last digit first
RECURSIVE Decimal(_)
Decimal(s) ==
    IF s = "" THEN 0
    ELSE 10 * Decimal(SubSeq(s, 1, Len(s) - 1))
            + (CHOOSE d \in 0..9 : SubSeq(s, Len(s), Len(s)) = ToString(d))

\* s parses as the integer n: after optional blanks and an optional sign
\* comes a run of digits, read to its end, that denotes n
ParsesAs(s, n) ==
    \E a \in 1..Len(s), b \in 1..Len(s) :
        /\ a <= b
        /\ AllDigits(SubSeq(s, a, b))
        /\ b < Len(s) => ~AllDigits(SubSeq(s, b + 1, b + 1))
        /\ \/ AllSpaces(SubSeq(s, 1, a - 1)) /\ n = Decimal(SubSeq(s, a, b))
           \/ /\ a > 1
              /\ AllSpaces(SubSeq(s, 1, a - 2))
              /\ \/ SubSeq(s, a - 1, a - 1) = "+" /\ n = Decimal(SubSeq(s, a, b))
                 \/ SubSeq(s, a - 1, a - 1) = "-" /\ n = 0 - Decimal(SubSeq(s, a, b))
ParsesAsInteger(s) == \E n \in -99..99 : ParsesAs(s, n)

\* C28: each configuration value is the integer its environment variable
\* parses as when the variable is a string that parses as an integer, and
\* the default otherwise (variable missing, not a string, or without a
\* number): 50000, 20 and 100.
C28_ConfigValues ==
    \A i \in Inst :
        pc[i] = "configured" =>
            LET row == ConfigTable[call[i].op]
                env == call[i].args
                set == row[1] \in DOMAIN env
            IN  IF set /\ env[row[1]].t = "string" /\ ParsesAsInteger(env[row[1]].s)
                    THEN /\ ~outcome[i].threw
                         /\ outcome[i].value.t = "number"
                         /\ ParsesAs(env[row[1]].s, outcome[i].value.n)
                    ELSE outcome[i] = Returned(Num(row[2]))

\* the page size is read from a set variable while the character limit,
\* set to a text without a number, falls back to its default
C28_Witness ==
    /\ pc[1] = "configured"
    /\ call[1].op = "getCharacterLimit"
    /\ call[1].args = ("CHARACTER_LIMIT" :> Str("abc")) @@ ("DEFAULT_PAGE_SIZE" :> Str("25"))
    /\ outcome[1] = Returned(Num(50000))

C28_WitnessParsed ==
    /\ pc[1] = "configured"
    /\ call[1].op = "getDefaultPageSize"
    /\ call[1].args = ("DEFAULT_PAGE_SIZE" :> Str("25px")) @@ ("MAX_PAGE_SIZE" :> Num(7))
    /\ outcome[1] = Returned(Num(25))

\* the class the status of a response puts it in
ClassOf(status) ==
    CASE status = 429 -> "RateLimit"
      [] status \in {401, 403} -> "Authentication"
      [] status = 404 -> "NotFound"
      [] status = 204 -> "EmptySuccess"
      [] status \in (200..299) \ {204} -> "ParsedSuccess"
      [] OTHER -> "ApiFailure"

\* the classes the completion out of request(), with the body consumed as
\* read says, shows for the response resp
ClassesShown(resp, out, read) ==
    {c \in {"RateLimit", "Authentication", "NotFound", "ApiFailure", "EmptySuccess",
            "ParsedSuccess"} :
        CASE c = "RateLimit" ->
                out.threw /\ out.error.name = "RateLimitError" /\ read = "none"
          [] c = "Authentication" ->
                out.threw /\ out.error.name = "AuthenticationError" /\ read = "none"
          [] c = "NotFound" ->
                /\ out.threw /\ out.error.name = "LoomApiError" /\ read = "none"
                /\ out.error.status = 404 /\ out.error.code = Str("NOT_FOUND")
          [] c = "ApiFailure" ->
                /\ out.threw /\ out.error.name = "LoomApiError" /\ read = "text"
                /\ out.error.status = resp.status /\ out.error.code = undefined
          [] c = "EmptySuccess" -> out = Returned(undefined) /\ read = "none"
          [] c = "ParsedSuccess" ->
                /\ read = "json"
                /\ IF resp.body.json THEN out = Returned(resp.body.value)
                   ELSE out.threw /\ out.error.name = "SyntaxError"}

\* statuses of every class, with the edges of the classes
SampleStatuses ==
    {100, 101, 199, 200, 201, 202, 203, 204, 205, 206, 299, 300, 301, 304, 399,
     400, 401, 402, 403, 404, 405, 428, 429, 430, 499, 500, 503, 599}
SampleBodies == {RawText(""), JsonText(Obj([message |-> Str("quota exceeded")]))}

\* C29: every response is put in exactly one class, the one its status
\* gives: 429 rate limit, 401 and 403 authentication, 404 not found, every
\* other status outside 200..299 generic failure, 204 empty success, every
\* other 2xx parsed body.  The body is parsed as the result in the last
\* class only and read as text for the message in the generic failure class
\* only.  Stated of every answered request and of request() applied to
\* sample statuses of every class.
C29_Classification ==
    /\ \A i \in Inst :
        Answered(i) =>
            /\ ClassesShown(response[i], reqOut[i], bodyRead[i])
                    = {ClassOf(response[i].status)}
            /\ bodyRead[i] = "json" <=> ClassOf(response[i].status) = "ParsedSuccess"
            /\ bodyRead[i] = "text" <=> ClassOf(response[i].status) = "ApiFailure"
    /\ \A i \in Inst :
        pc[i] = "awaiting" =>
            \A st \in SampleStatuses, b \in SampleBodies :
                LET resp == Response(st, <<>>, b)
                    r == requestReceive(resp)
                IN  /\ ClassesShown(resp, r.out, r.read) = {ClassOf(st)}
                    /\ r.read = "json" <=> ClassOf(st) = "ParsedSuccess"
                    /\ r.read = "text" <=> ClassOf(st) = "ApiFailure"

\* a 304 was reported as a generic failure after its body was read as text
C29_Witness ==
    /\ Answered(1)
    /\ response[1].status = 304
    /\ bodyRead[1] = "text"
    /\ reqOut[1].threw
    /\ reqOut[1].error.name = "LoomApiError"
    /\ reqOut[1].error.status = 304

\* C30: every tool invocation ends, given that its fetch settles, with
\* exactly one envelope, produced when it ends and not before; and an
\* invocation on an adapter without a token ends at once in a failure
\* envelope, with no fetch made.
C30_Termination ==
    /\ \A i \in Inst : (pc[i] = "awaiting") ~> (pc[i] = "done")
    /\ [](\A i \in Inst :
            /\ (pc[i] = "done" /\ call[i].op \in ToolOps) =>
                    /\ envelope[i] # Nil
                    /\ Len(envelope[i].content) = 1
            /\ pc[i] \in {"idle", "awaiting"} => envelope[i] = Nil)
    /\ [][\A i \in Inst :
            (pc[i] = "idle" /\ NoToken(i) /\ call[i] = Nil /\ call'[i] # Nil) =>
                /\ pc'[i] = "done"
                /\ netCalls'[i] = 0
                /\ sent'[i] = Nil
                /\ call'[i].op \in ToolOps =>
                    /\ "isError" \in DOMAIN envelope'[i]
                    /\ envelope'[i].isError]_vars

\* a tool invoked without a token has ended in a failure envelope with no
\* fetch made
C30_Witness ==
    /\ pc[1] = "done"
    /\ NoToken(1)
    /\ call[1].op \in ToolOps
    /\ netCalls[1] = 0
    /\ "isError" \in DOMAIN envelope[1]

\* a tool whose fetch was outstanding has ended with an envelope
C30_WitnessAnswered ==
    /\ Answered(1)
    /\ call[1].op \in ToolOps
    /\ netCalls[1] = 1
    /\ envelope[1] # Nil

====
